---- MODULE Spec2Model ----
(***************************************************************************)
(* Jafr analysis system: the Abjad numerology functions and orchestrator   *)
(* of jafr-analyzer.js and of the standalone page, and the Express routes  *)
(* of server/routes.ts.                                                    *)
(*                                                                         *)
(* Strings are sequences of UTF-16 code units.  Arabic letters are written *)
(* by their transliterated names ("meem" is U+0645); "hs" and "ls" are a   *)
(* high and a low surrogate and "space" is a character outside the Abjad  *)
(* table.  Messages are written as ASCII tags.                             *)
(***************************************************************************)
EXTENDS Integers, Sequences, FiniteSets, TLC

VARIABLES
    \* ---- jafr-analyzer.js / standalone page ----
    fn,          \* which function of jafr-analyzer.js is being run
    apc,         \* position inside that function
    text,        \* string argument: of calculateNameValue, calculateAbjadValue, getAbjadValue
    num,         \* argument, then loop variable, of reduceToSingleDigit
    input,       \* the argument reduceToSingleDigit was called with
    result,      \* value returned by the pure function
    args,        \* arguments of analyzeJafr: [name, motherName, question]; type of
                 \* getBasicMeaning; key of validateApiKey
    values,      \* the values analyzeJafr computed before the remote call
    completion,  \* what openai.chat.completions.create did
    outcome,     \* how analyzeJafr ended: returned a result or threw
    oracleCalls, \* number of completions.create calls analyzeJafr made
    \* ---- server/routes.ts: one HTTP request ----
    req,         \* the request: path, x-api-key header, JSON body
    handler,     \* the registered handler that is running the request
    pc,          \* position of that handler (its pending await, or "responded")
    res,         \* the response sent: status and JSON body
    sent,        \* number of responses sent for the request
    calls,       \* outbound calls made so far, per remote operation
    timers,      \* the timeout timers of the request
    upstream,    \* the provider's answer to the last fetch
    loc,         \* local variables of the handler that outlive an await
    remoteFailed,      \* a remote call of this request has failed
    callsAfterFailure, \* outbound calls made after a remote call failed
    \* ---- client/src/lib/queryClient.ts ----
    query,       \* one query of the client's QueryClient: state and attempts
    \* ---- server/routes.ts: two requests being handled at once ----
    conc,        \* per request: the request, the handler's position, its
                 \* locals, its response and the aiService answers it got
    \* ---- client/src/lib/api.ts, client/src/components/api-key-setup.tsx ----
    client       \* the browser: both storages, the key form's state, and the
                 \* positions of handleSubmit and makeApiRequest

avars == <<fn, apc, text, num, input, result, args, values, completion, outcome, oracleCalls>>

svars == <<req, handler, pc, res, sent, calls, timers, upstream, loc, remoteFailed, callsAfterFailure>>

vars == <<avars, svars, query, conc, client>>

-----------------------------------------------------------------------------
(* Bounds of the model. *)

MaxTextLen == 4
MaxNum == 200
MaxKeyLen == 31

-----------------------------------------------------------------------------
(* jafr-analyzer.js: the Abjad table and the pure functions. *)

\* The table of the standalone page, row by row as the script writes it.
pageAbjadMap ==
    ("alef" :> 1 @@ "alef_hamza_above" :> 1 @@ "alef_hamza_below" :> 1
        @@ "alef_madda" :> 1 @@ "hamza" :> 1)
    @@ ("beh" :> 2 @@ "jeem" :> 3 @@ "dal" :> 4 @@ "heh" :> 5 @@ "teh_marbuta" :> 5
        @@ "waw" :> 6)
    @@ ("zain" :> 7 @@ "hah" :> 8 @@ "tah" :> 9 @@ "yeh" :> 10 @@ "alef_maksura" :> 10)
    @@ ("kaf" :> 20 @@ "lam" :> 30 @@ "meem" :> 40 @@ "noon" :> 50 @@ "seen" :> 60)
    @@ ("ain" :> 70 @@ "feh" :> 80 @@ "sad" :> 90 @@ "qaf" :> 100 @@ "reh" :> 200)
    @@ ("sheen" :> 300 @@ "teh" :> 400 @@ "theh" :> 500 @@ "khah" :> 600
        @@ "thal" :> 700)
    @@ ("dad" :> 800 @@ "zah" :> 900 @@ "ghain" :> 1000)

\* Tables that differ from the source's in one entry.
abjadMapGhainAsZah == [pageAbjadMap EXCEPT !["ghain"] = 900]
abjadMapTehMarbutaAsTeh == [pageAbjadMap EXCEPT !["teh_marbuta"] = 400]

\* The table of jafr-analyzer.js.
abjadMap ==
    [c \in {"alef", "alef_hamza_above", "alef_hamza_below", "alef_madda", "hamza",
            "beh", "jeem", "dal", "heh", "teh_marbuta", "waw",
            "zain", "hah", "tah", "yeh", "alef_maksura",
            "kaf", "lam", "meem", "noon", "seen",
            "ain", "feh", "sad", "qaf", "reh",
            "sheen", "teh", "theh", "khah", "thal",
            "dad", "zah", "ghain"} |->
        CASE c \in {"alef", "alef_hamza_above", "alef_hamza_below", "alef_madda", "hamza"} -> 1
          [] c = "beh" -> 2   [] c = "jeem" -> 3  [] c = "dal" -> 4
          [] c \in {"heh", "teh_marbuta"} -> 5    [] c = "waw" -> 6
          [] c = "zain" -> 7  [] c = "hah" -> 8   [] c = "tah" -> 9
          [] c \in {"yeh", "alef_maksura"} -> 10
          [] c = "kaf" -> 20  [] c = "lam" -> 30  [] c = "meem" -> 40
          [] c = "noon" -> 50 [] c = "seen" -> 60
          [] c = "ain" -> 70  [] c = "feh" -> 80  [] c = "sad" -> 90
          [] c = "qaf" -> 100 [] c = "reh" -> 200
          [] c = "sheen" -> 300 [] c = "teh" -> 400 [] c = "theh" -> 500
          [] c = "khah" -> 600  [] c = "thal" -> 700
          [] c = "dad" -> 800   [] c = "zah" -> 900 [] c = "ghain" -> 1000]

\* Characters that are not keys of the table: a space, a Latin letter, a
\* digit, a comma and a diacritic (fatha), each one code unit.
OtherCharacters == {"space", "latin_a", "digit_1", "comma", "fatha"}

\* The code units input strings are built from.
CodeUnits == {"meem", "hah", "dal", "lam", "tah", "space", "hs", "ls"}

RECURSIVE StringsUpTo(_)
StringsUpTo(n) ==
    IF n = 0 THEN {<<>>}
    ELSE LET shorter == StringsUpTo(n - 1)
         IN  shorter \cup {Append(s, u) : s \in {t \in shorter : Len(t) = n - 1}, u \in CodeUnits}

Texts == StringsUpTo(MaxTextLen)

\* abjadMap[letter] || 0, the letter being a string of one code point.
getAbjadValueNoDefault(letter) ==
    IF Len(letter) = 1 /\ letter[1] \in DOMAIN abjadMap THEN abjadMap[letter[1]] ELSE 1

getAbjadValue(letter) ==
    IF Len(letter) = 1 /\ letter[1] \in DOMAIN abjadMap THEN abjadMap[letter[1]] ELSE 0

\* for (const char of name): the string iterator yields code points, a high
\* surrogate followed by a low one being a single character of two units.
RECURSIVE CodePoints(_)
CodePoints(s) ==
    IF s = <<>> THEN <<>>
    ELSE IF Len(s) >= 2 /\ s[1] = "hs" /\ s[2] = "ls"
         THEN <<SubSeq(s, 1, 2)>> \o CodePoints(SubSeq(s, 3, Len(s)))
         ELSE <<SubSeq(s, 1, 1)>> \o CodePoints(SubSeq(s, 2, Len(s)))

\* str.split(''): one string per UTF-16 code unit.
SplitUnits(s) == [i \in 1..Len(s) |-> <<s[i]>>]

\* let total = 0; for (const char of name) total += getAbjadValue(char)
ForOfTotalReturnsInLoop(chars, total) ==
    IF chars = <<>> THEN total ELSE total + getAbjadValue(Head(chars))

RECURSIVE ForOfTotal(_, _)
ForOfTotal(chars, total) ==
    IF chars = <<>> THEN total
    ELSE ForOfTotal(Tail(chars), total + getAbjadValue(Head(chars)))

calculateNameValue(name) == ForOfTotal(CodePoints(name), 0)

\* str.split('').reduce((sum, char) => sum + (abjadMap[char] || 0), 0)
\* abjadMap[char] || 0 in the page's script, char being one code unit.
pageAbjadValueNoDefault(char) ==
    IF Len(char) = 1 /\ char[1] \in DOMAIN pageAbjadMap THEN pageAbjadMap[char[1]] ELSE 1

pageAbjadValue(char) ==
    IF Len(char) = 1 /\ char[1] \in DOMAIN pageAbjadMap THEN pageAbjadMap[char[1]] ELSE 0

RECURSIVE ReduceSum(_, _)
ReduceSum(chars, sum) ==
    IF chars = <<>> THEN sum
    ELSE ReduceSum(Tail(chars), sum + pageAbjadValue(Head(chars)))

calculateAbjadValue(str) == ReduceSum(SplitUnits(str), 0)

\* num.toString(): the decimal digits of a non-negative integer below 10^21.
DigitChars == <<"0", "1", "2", "3", "4", "5", "6", "7", "8", "9">>

RECURSIVE numToString(_)
numToString(n) ==
    IF n < 10 THEN <<DigitChars[n + 1]>>
    ELSE Append(numToString(n \div 10), DigitChars[(n % 10) + 1])

\* parseInt(digit) of a one-character decimal string.
parseInt(digit) == (CHOOSE d \in 1..10 : DigitChars[d] = digit) - 1

\* num.toString().split('').reduce((sum, digit) => sum + parseInt(digit), 0)
RECURSIVE DigitReduce(_, _)
DigitReduce(digits, sum) ==
    IF digits = <<>> THEN sum
    ELSE DigitReduce(Tail(digits), sum + parseInt(Head(digits)))

DigitSum(n) == DigitReduce(numToString(n), 0)

\* the loop condition of reduceToSingleDigit
ReduceLoopCondOffByOne(n) == n > 10

ReduceLoopCond(n) == n > 9

\* while (num > 9) num = <digit sum of num>; return num -- the value of num
\* after the loop, as a function of the value it starts with.
whileLoop[n \in Nat] == IF ReduceLoopCond(n) THEN whileLoop[DigitSum(n)] ELSE n

\* The loop body run at most once: an if in the place of the while.
reduceToSingleDigitIfNotWhile(n) == IF ReduceLoopCond(n) THEN DigitSum(n) ELSE n

reduceToSingleDigit(n) == whileLoop[n]

\* const totalValue = nameValue + motherNameValue + questionValue; ... reducedValue
analyzeJafrValues(name, motherName, question) ==
    LET nameValue == calculateNameValue(name)
        motherNameValue == calculateNameValue(motherName)
        questionValue == calculateNameValue(question)
        totalValue == nameValue + motherNameValue + questionValue
    IN  [nameValue |-> nameValue, motherNameValue |-> motherNameValue,
         questionValue |-> questionValue, totalValue |-> totalValue,
         reducedValue |-> reduceToSingleDigit(totalValue)]

Muhammad == <<"meem", "hah", "meem", "dal">>

-----------------------------------------------------------------------------
(* server/routes.ts: requests, provider answers and response bodies.       *)

\* The length below which a key is rejected as too short.
MinKeyLength == 30

\* An API key as the format checks see it: whether it is a string, whether it
\* starts with 'sk-', and its length.  NoKey is a missing or empty key (falsy),
\* NonStringKey a truthy JSON value that is not a string.
NoKey == [kind |-> "absent", sk |-> FALSE, len |-> 0]
NonStringKey == [kind |-> "nonstring", sk |-> FALSE, len |-> 0]
StringKeys ==
    {[kind |-> "string", sk |-> b, len |-> n] :
        b \in BOOLEAN, n \in {MinKeyLength - 1, MinKeyLength, MaxKeyLen}}
HeaderKeys == {NoKey} \cup StringKeys
BodyKeys == {NoKey, NonStringKey} \cup StringKeys

\* A JSON field that may be missing.
Absent == [defined |-> FALSE, str |-> <<>>]
Str(s) == [defined |-> TRUE, str |-> s]
Blank == Str(<<"space">>)

MotherText == <<"lam", "hah">>
QuestionText == <<"meem", "space", "tah">>
BirthDateText == <<"1", "9", "-", "0", "5">>

\* String.prototype.trim: white space removed from both ends.
RECURSIVE TrimStart(_)
TrimStart(s) == IF s # <<>> /\ Head(s) = "space" THEN TrimStart(Tail(s)) ELSE s

RECURSIVE TrimEnd(_)
TrimEnd(s) ==
    IF s # <<>> /\ s[Len(s)] = "space" THEN TrimEnd(SubSeq(s, 1, Len(s) - 1)) ELSE s

trim(s) == TrimEnd(TrimStart(s))

\* options.deepAnalysis / options.includeAdvancedAnalysis: "undefined" when the
\* flag (or the options object) is missing.
AnalyzeBodies ==
    [name : {Absent, Blank, Str(Muhammad)},
     mother : {Absent, Str(MotherText)},
     motherName : {Absent, Str(MotherText)},
     question : {Absent, Blank, Str(QuestionText)},
     birthDate : {Absent, Str(BirthDateText)},
     deepAnalysis : {"undefined", "true", "false"},
     includeAdvancedAnalysis : {"undefined", "false"}]

PathTestApiKey == "/api/test-api-key"
PathAnalyze == "/api/jafr/analyze"
PathValidateKey == "/api/validate-key"

NoBody == [none |-> TRUE]

Requests ==
    {[path |-> PathTestApiKey, key |-> NoKey, body |-> [apiKey |-> k]] : k \in BodyKeys}
    \cup {[path |-> PathAnalyze, key |-> k, body |-> b] : k \in HeaderKeys, b \in AnalyzeBodies}
    \cup {[path |-> PathValidateKey, key |-> k, body |-> NoBody] : k \in HeaderKeys}

\* The handlers in the order registerRoutes registers them for POST.
Routes ==
    <<[path |-> PathTestApiKey, handler |-> "testApiKey"],
      [path |-> PathAnalyze, handler |-> "analyze"],
      [path |-> PathValidateKey, handler |-> "validateKey"],
      [path |-> PathAnalyze, handler |-> "analyzeSecond"]>>

\* What the provider answers to a fetch: an HTTP status, whether a Retry-After
\* header came with it, whether its body parses as JSON, and whether the
\* parsed value is null (else it is an object with the fields the handler
\* reads).
UpstreamStatuses == {200, 401, 403, 429, 500}
\* The Retry-After header of the provider's answer: absent, a number of
\* seconds, or an HTTP date (its first characters).
HttpDate == <<"W", "e", "d", ",", "space", "2", "1">>
RetryAfterHeaders == {<<>>, <<"3", "0">>, HttpDate}

UpstreamResponses ==
    {r \in [kind : {"response"}, status : UpstreamStatuses,
            retryAfter : RetryAfterHeaders, jsonOk : BOOLEAN, jsonNull : BOOLEAN] :
        r.jsonNull => r.jsonOk}
NoUpstream == [kind |-> "none"]
UpstreamOk(r) == r.status \in 200..299

\* What a call of aiService does: it resolves, or it throws because the
\* remote call timed out, was rate limited, was rejected or was malformed.
AiOutcomes == {"resolved", "timeout", "rate_limit", "auth_rejected", "malformed"}

Null == [null |-> TRUE]
NoResponse == [status |-> 0]
NoLocals == [none |-> TRUE]
NoCalls == [authKey |-> 0, context |-> 0, combined |-> 0, completion |-> 0]
NoTimers == [keyTest |-> "unset", completion |-> "unset"]

NoRequest == [path |-> "none"]

ServerIdle ==
    /\ req = NoRequest
    /\ handler = "none"
    /\ pc = "idle"
    /\ res = NoResponse
    /\ sent = 0
    /\ calls = NoCalls
    /\ timers = NoTimers
    /\ upstream = NoUpstream
    /\ loc = NoLocals
    /\ remoteFailed = FALSE
    /\ callsAfterFailure = 0

NoQuery == [state |-> "none", attempts |-> 0]
NoConcurrent == [none |-> TRUE]
NoClient == [none |-> TRUE]

AnalyzerIdle ==
    /\ fn = "none"
    /\ apc = "idle"
    /\ text = <<>>
    /\ num = 0
    /\ input = 0
    /\ result = 0
    /\ args = [name |-> <<>>, motherName |-> <<>>, question |-> <<>>]
    /\ values = [nameValue |-> 0]
    /\ completion = "none"
    /\ outcome = [kind |-> "none"]
    /\ oracleCalls = 0

-----------------------------------------------------------------------------
(* jafr-analyzer.js as a state machine: one call of one of its functions.  *)

\* Inputs of analyzeJafr: the empty string, the name of main()'s example
\* ("meem hah meem dal") and a two-letter name.
SampleTexts == {<<>>, Muhammad, MotherText}

NoArgs == [name |-> <<>>, motherName |-> <<>>, question |-> <<>>]
NoValues == [nameValue |-> 0]
NoOutcome == [kind |-> "none"]

\* What the provider does with the one chat-completion request: it answers
\* with a completion, answers with a body that has no choices, or the SDK
\* call rejects (timeout, 429, 401/403).
CompletionOutcomes == {"ok", "malformed", "timeout", "rate_limit", "auth_rejected"}
RemoteFailures == CompletionOutcomes \ {"ok"}

InitAnalyzer ==
    /\ fn \in {"calculateNameValue", "calculateAbjadValue", "reduceToSingleDigit", "analyzeJafr"}
    /\ apc = "call"
    /\ text \in (IF fn \in {"calculateNameValue", "calculateAbjadValue"} THEN Texts ELSE {<<>>})
    /\ num \in (IF fn = "reduceToSingleDigit" THEN 0..MaxNum ELSE {0})
    /\ input = num
    /\ result = 0
    /\ args \in (IF fn = "analyzeJafr"
                 THEN [name : SampleTexts, motherName : SampleTexts, question : SampleTexts]
                 ELSE {NoArgs})
    /\ values = NoValues
    /\ completion = "none"
    /\ outcome = NoOutcome
    /\ oracleCalls = 0
    /\ ServerIdle
    /\ query = NoQuery /\ conc = NoConcurrent /\ client = NoClient

\* calculateNameValue(name) of jafr-analyzer.js, called and returning.
CallCalculateNameValue ==
    /\ fn = "calculateNameValue" /\ apc = "call"
    /\ result' = calculateNameValue(text)
    /\ apc' = "done"
    /\ UNCHANGED <<fn, text, num, input, args, values, completion, outcome, oracleCalls>>
    /\ UNCHANGED <<svars, query, conc, client>>

\* calculateAbjadValue(str) of the standalone page, called and returning.
CallCalculateAbjadValue ==
    /\ fn = "calculateAbjadValue" /\ apc = "call"
    /\ result' = calculateAbjadValue(text)
    /\ apc' = "done"
    /\ UNCHANGED <<fn, text, num, input, args, values, completion, outcome, oracleCalls>>
    /\ UNCHANGED <<svars, query, conc, client>>

\* One iteration of the while loop of reduceToSingleDigit.
ReduceLoop ==
    /\ fn = "reduceToSingleDigit" /\ apc = "call"
    /\ ReduceLoopCond(num)
    /\ num' = DigitSum(num)
    /\ UNCHANGED <<fn, apc, text, input, result, args, values, completion, outcome, oracleCalls>>
    /\ UNCHANGED <<svars, query, conc, client>>

\* The loop condition is false: return num.
ReduceReturn ==
    /\ fn = "reduceToSingleDigit" /\ apc = "call"
    /\ ~ReduceLoopCond(num)
    /\ result' = num
    /\ apc' = "done"
    /\ UNCHANGED <<fn, text, num, input, args, values, completion, outcome, oracleCalls>>
    /\ UNCHANGED <<svars, query, conc, client>>

\* analyzeJafr up to its await: the values are computed, the prompt is built
\* and openai.chat.completions.create is called.
AnalyzeJafrCall ==
    /\ fn = "analyzeJafr" /\ apc = "call"
    /\ values' = analyzeJafrValues(args.name, args.motherName, args.question)
    /\ oracleCalls' = oracleCalls + 1
    /\ apc' = "await"
    /\ UNCHANGED <<fn, text, num, input, result, args, completion, outcome>>
    /\ UNCHANGED <<svars, query, conc, client>>

\* How analyzeJafr ends once the awaited call has settled with o.
analyzeJafrOutcomeSwallowed(o, vals) ==
    [kind |-> "returned", values |-> vals,
     analysis |-> IF o = "ok" THEN "completion_text" ELSE "unavailable"]

analyzeJafrOutcome(o, vals) ==
    IF o = "ok"
    THEN [kind |-> "returned", values |-> vals, analysis |-> "completion_text"]
    ELSE [kind |-> "thrown", message |-> "JAFR_ANALYSIS_ERROR"]

\* The awaited call settles; the rest of analyzeJafr runs: it returns the
\* result, or its catch block logs the error and throws a new Error.
AnalyzeJafrSettle ==
    /\ fn = "analyzeJafr" /\ apc = "await"
    /\ \E o \in CompletionOutcomes :
          /\ completion' = o
          /\ outcome' = analyzeJafrOutcome(o, values)
    /\ apc' = "done"
    /\ UNCHANGED <<fn, text, num, input, result, args, values, oracleCalls>>
    /\ UNCHANGED <<svars, query, conc, client>>

NextAnalyzer ==
    \/ CallCalculateNameValue
    \/ CallCalculateAbjadValue
    \/ ReduceLoop
    \/ ReduceReturn
    \/ AnalyzeJafrCall
    \/ AnalyzeJafrSettle

SpecAnalyzer == InitAnalyzer /\ [][NextAnalyzer]_vars


-----------------------------------------------------------------------------
(* server/routes.ts as a state machine: one request from arrival to response. *)

\* Response messages, as sequences of tokens (the Arabic texts are written as
\* tags; a message built from a template holds the interpolated values).
MsgKeyRequired == <<"api_key_required">>
MsgKeyBadPrefix == <<"invalid_key_format_must_start_with_sk-">>
MsgKeyTooShort == <<"key_too_short">>
MsgRateLimited(retryAfter) == <<"rate_limit_exceeded_retry_after", retryAfter, "seconds">>
MsgKeyVerified == <<"key_verified">>
MsgKeyInvalidOrExpired == <<"key_invalid_or_expired">>
MsgUpstreamError == <<"upstream_error_message">>
MsgServerError == <<"server_error", "statusText">>
MsgConnectionTimeout == <<"connection_timed_out">>
MsgFetchFailed == <<"fetch_failed">>
MsgTypeError == <<"cannot_read_properties_of_null">>
MsgCannotReachProvider == <<"cannot_reach_openrouter">>
MsgKeyHeaderRequired == <<"api_key_header_required">>

\* parseInt(str, 10) of a string of decimal digits.
RECURSIVE parseIntDecimal(_, _)
parseIntDecimal(str, acc) ==
    IF str = <<>> THEN acc
    ELSE parseIntDecimal(Tail(str), 10 * acc + parseInt(Head(str)))

\* The leading decimal digits of a string.
RECURSIVE DigitPrefix(_)
DigitPrefix(str) ==
    IF str # <<>> /\ (\E d \in 1..10 : DigitChars[d] = Head(str))
    THEN <<Head(str)>> \o DigitPrefix(Tail(str))
    ELSE <<>>

\* A number as res.json carries it; NaN is serialised as null.
JsonNumber(n) == [null |-> FALSE, n |-> n]

\* parseInt(retryAfter, 10) of a header value, as the JSON body carries it:
\* the number its leading digits spell, NaN when it has none.
parseIntRadix10(str) ==
    IF DigitPrefix(str) = <<>> THEN Null ELSE JsonNumber(parseIntDecimal(DigitPrefix(str), 0))

\* response.headers.get('Retry-After') || '60'
retryAfterOf(r) == IF r.retryAfter = <<>> THEN <<"6", "0">> ELSE r.retryAfter

\* res.status(status).json(body): the response is sent and the handler returns.
Respond(status, body) ==
    /\ res' = [status |-> status, body |-> body]
    /\ sent' = sent + 1
    /\ pc' = "responded"

\* An outbound call of remote operation op is made.
Outbound(op) ==
    /\ calls' = [calls EXCEPT ![op] = @ + 1]
    /\ callsAfterFailure' = callsAfterFailure + (IF remoteFailed THEN 1 ELSE 0)

\* The server listens: no request has arrived yet.
Init ==
    /\ req = NoRequest
    /\ handler = "none"
    /\ pc = "listening"
    /\ res = NoResponse
    /\ sent = 0
    /\ calls = NoCalls
    /\ timers = NoTimers
    /\ upstream = NoUpstream
    /\ loc = NoLocals
    /\ remoteFailed = FALSE
    /\ callsAfterFailure = 0
    /\ AnalyzerIdle
    /\ query = NoQuery /\ conc = NoConcurrent /\ client = NoClient

\* A POST request arrives.
Receive ==
    /\ pc = "listening"
    /\ req' \in Requests
    /\ pc' = "received"
    /\ UNCHANGED <<handler, res, sent, calls, timers, upstream, loc, remoteFailed, callsAfterFailure>>
    /\ UNCHANGED <<avars, query, conc, client>>

\* The handler registered last for the path.
LastRouteFor(path) ==
    Routes[CHOOSE i \in 1..Len(Routes) :
              /\ Routes[i].path = path
              /\ \A j \in (i + 1)..Len(Routes) : Routes[j].path # path]

\* Express runs the first handler registered for the request's path; no
\* handler of routes.ts calls next(), so no later handler runs.
FirstRouteFor(path) ==
    Routes[CHOOSE i \in 1..Len(Routes) :
              /\ Routes[i].path = path
              /\ \A j \in 1..(i - 1) : Routes[j].path # path]

Dispatch ==
    /\ pc = "received"
    /\ handler' = FirstRouteFor(req.path).handler
    /\ pc' = "start"
    /\ UNCHANGED <<req, res, sent, calls, timers, upstream, loc, remoteFailed, callsAfterFailure>>
    /\ UNCHANGED <<avars, query, conc, client>>

---------------------------------------------------------------------------
(* POST /api/test-api-key *)

\* From the start of the handler to its first await: the format checks, then
\* the 15 s timer is armed and the key check is fetched.
TestApiKeyStart ==
    /\ handler = "testApiKey" /\ pc = "start"
    /\ LET apiKey == req.body.apiKey IN
         IF apiKey.kind = "absent"
         THEN /\ Respond(400, [valid |-> FALSE, success |-> FALSE, message |-> MsgKeyRequired])
              /\ UNCHANGED <<calls, timers, callsAfterFailure>>
         ELSE IF apiKey.kind # "string" \/ ~apiKey.sk
         THEN /\ Respond(400, [valid |-> FALSE, success |-> FALSE, message |-> MsgKeyBadPrefix])
              /\ UNCHANGED <<calls, timers, callsAfterFailure>>
         ELSE IF apiKey.len < MinKeyLength
         THEN /\ Respond(400, [valid |-> FALSE, success |-> FALSE, message |-> MsgKeyTooShort])
              /\ UNCHANGED <<calls, timers, callsAfterFailure>>
         ELSE /\ timers' = [timers EXCEPT !.keyTest = "armed"]
              /\ Outbound("authKey")
              /\ pc' = "awaitFetch"
              /\ UNCHANGED <<res, sent>>
    /\ UNCHANGED <<req, handler, upstream, loc, remoteFailed>>
    /\ UNCHANGED <<avars, query, conc, client>>

\* The fetch resolves with a response: the timer is cleared and the status is
\* handled; an ok or an unexpected status goes on to read the body.
TestApiKeyFetchResolves ==
    /\ handler = "testApiKey" /\ pc = "awaitFetch"
    /\ \E r \in UpstreamResponses :
         /\ upstream' = r
         /\ remoteFailed' = (remoteFailed \/ ~UpstreamOk(r))
         /\ IF r.status = 429
            THEN Respond(429, [valid |-> FALSE, success |-> FALSE,
                               message |-> MsgRateLimited(retryAfterOf(r)),
                               retryAfter |-> parseIntRadix10(retryAfterOf(r))])
            ELSE IF UpstreamOk(r)
            THEN pc' = "awaitJson" /\ UNCHANGED <<res, sent>>
            ELSE IF r.status \in {401, 403}
            THEN Respond(200, [valid |-> FALSE, success |-> FALSE,
                               message |-> MsgKeyInvalidOrExpired])
            ELSE pc' = "awaitJson" /\ UNCHANGED <<res, sent>>
    /\ timers' = [timers EXCEPT !.keyTest = "cleared"]
    /\ UNCHANGED <<req, handler, calls, loc, callsAfterFailure>>
    /\ UNCHANGED <<avars, query, conc, client>>

\* response.json().catch(() => ({})) settles (Node's fetch bounds the read of
\* a body by its own body timeout); the answer is sent.  Reading a property
\* of a body that parsed to null throws a TypeError: the inner catch
\* rethrows it and the outer catch answers.
TestApiKeyJsonSettles ==
    /\ handler = "testApiKey" /\ pc = "awaitJson"
    /\ IF upstream.jsonNull
       THEN Respond(200, [valid |-> FALSE, success |-> FALSE,
                          message |-> MsgTypeError, error |-> MsgTypeError])
       ELSE IF UpstreamOk(upstream)
       THEN Respond(200, [valid |-> TRUE, success |-> TRUE, message |-> MsgKeyVerified,
                          data |-> IF upstream.jsonOk THEN "key_info" ELSE "defaults"])
       ELSE Respond(200, [valid |-> FALSE, success |-> FALSE,
                          message |-> IF upstream.jsonOk THEN MsgUpstreamError ELSE MsgServerError,
                          error |-> IF upstream.jsonOk THEN "upstream_error" ELSE "unexpected_error"])
    /\ UNCHANGED <<req, handler, calls, timers, upstream, loc, remoteFailed, callsAfterFailure>>
    /\ UNCHANGED <<avars, query, conc, client>>

\* The fetch rejects with a network error: the inner catch clears the timer
\* and rethrows, the outer catch answers.
TestApiKeyFetchRejects ==
    /\ handler = "testApiKey" /\ pc = "awaitFetch"
    /\ upstream' = [kind |-> "error", name |-> "TypeError"]
    /\ remoteFailed' = TRUE
    /\ timers' = [timers EXCEPT !.keyTest = "cleared"]
    /\ Respond(200, [valid |-> FALSE, success |-> FALSE,
                     message |-> MsgFetchFailed, error |-> MsgFetchFailed])
    /\ UNCHANGED <<req, handler, calls, loc, callsAfterFailure>>
    /\ UNCHANGED <<avars, query, conc, client>>

\* The provider has not answered after 15 s: the timer fires and aborts the
\* fetch; the inner catch throws the timeout error, the outer catch answers.
TestApiKeyTimeoutIgnored ==
    /\ handler = "testApiKey" /\ pc = "awaitFetch" /\ timers.keyTest = "armed"
    /\ timers' = [timers EXCEPT !.keyTest = "fired"]
    /\ UNCHANGED <<req, handler, pc, res, sent, calls, upstream, loc, remoteFailed, callsAfterFailure>>
    /\ UNCHANGED <<avars, query, conc, client>>

TestApiKeyTimeout ==
    /\ handler = "testApiKey" /\ pc = "awaitFetch" /\ timers.keyTest = "armed"
    /\ timers' = [timers EXCEPT !.keyTest = "fired"]
    /\ upstream' = [kind |-> "error", name |-> "AbortError"]
    /\ remoteFailed' = TRUE
    /\ Respond(200, [valid |-> FALSE, success |-> FALSE,
                     message |-> MsgConnectionTimeout, error |-> MsgConnectionTimeout])
    /\ UNCHANGED <<req, handler, calls, loc, callsAfterFailure>>
    /\ UNCHANGED <<avars, query, conc, client>>

---------------------------------------------------------------------------
(* POST /api/validate-key *)

\* The header check, then the key check is fetched under
\* AbortSignal.timeout(10000).
ValidateKeyStart ==
    /\ handler = "validateKey" /\ pc = "start"
    /\ IF req.key.kind = "absent"
       THEN /\ Respond(400, [valid |-> FALSE, message |-> MsgKeyHeaderRequired,
                             error |-> "MISSING_API_KEY"])
            /\ UNCHANGED <<calls, timers, callsAfterFailure>>
       ELSE /\ timers' = [timers EXCEPT !.keyTest = "armed"]
            /\ Outbound("authKey")
            /\ pc' = "awaitFetch"
            /\ UNCHANGED <<res, sent>>
    /\ UNCHANGED <<req, handler, upstream, loc, remoteFailed>>
    /\ UNCHANGED <<avars, query, conc, client>>

ValidateKeyFetchResolves ==
    /\ handler = "validateKey" /\ pc = "awaitFetch"
    /\ \E r \in UpstreamResponses :
         /\ upstream' = r
         /\ remoteFailed' = (remoteFailed \/ r.status # 200)
         /\ IF r.status = 429
            THEN Respond(429, [valid |-> FALSE,
                               message |-> MsgRateLimited(retryAfterOf(r)),
                               retryAfter |-> parseIntRadix10(retryAfterOf(r))])
            ELSE IF r.status = 200
            THEN pc' = "awaitJson" /\ UNCHANGED <<res, sent>>
            ELSE IF r.status \in {401, 403}
            THEN Respond(401, [valid |-> FALSE, message |-> MsgKeyInvalidOrExpired])
            ELSE pc' = "awaitJson" /\ UNCHANGED <<res, sent>>
    /\ UNCHANGED <<req, handler, calls, timers, loc, callsAfterFailure>>
    /\ UNCHANGED <<avars, query, conc, client>>

\* response.json().catch(() => ({})) settles: the body is read, fails to
\* parse, or the timeout signal aborts the read.  Reading a property of a
\* body that parsed to null throws a TypeError, which the catch answers.
ValidateKeyJsonSettles ==
    /\ handler = "validateKey" /\ pc = "awaitJson"
    /\ \E aborted \in BOOLEAN :
         /\ timers' = [timers EXCEPT !.keyTest = IF aborted THEN "fired" ELSE @]
         /\ LET parsed == upstream.jsonOk /\ ~aborted IN
              IF upstream.jsonNull /\ ~aborted
              THEN Respond(500, [valid |-> FALSE, message |-> MsgTypeError,
                                 success |-> FALSE])
              ELSE IF upstream.status = 200
              THEN Respond(200, [valid |-> TRUE, message |-> MsgKeyVerified,
                                 data |-> IF parsed THEN "key_info" ELSE "defaults"])
              ELSE Respond(upstream.status,
                           [valid |-> FALSE,
                            message |-> IF parsed THEN MsgUpstreamError ELSE MsgServerError,
                            success |-> FALSE,
                            error |-> IF parsed THEN "upstream_error" ELSE "unexpected_error"])
    /\ UNCHANGED <<req, handler, calls, upstream, loc, remoteFailed, callsAfterFailure>>
    /\ UNCHANGED <<avars, query, conc, client>>

\* The fetch rejects (network error): .catch throws the "cannot reach" error
\* and the handler's catch answers 500.
ValidateKeyFetchRejects ==
    /\ handler = "validateKey" /\ pc = "awaitFetch"
    /\ upstream' = [kind |-> "error", name |-> "TypeError"]
    /\ remoteFailed' = TRUE
    /\ Respond(500, [valid |-> FALSE, message |-> MsgCannotReachProvider, success |-> FALSE])
    /\ UNCHANGED <<req, handler, calls, timers, loc, callsAfterFailure>>
    /\ UNCHANGED <<avars, query, conc, client>>

\* The provider has not answered after 10 s: the signal aborts the fetch,
\* which rejects; the same path answers 500.
ValidateKeyTimeout ==
    /\ handler = "validateKey" /\ pc = "awaitFetch" /\ timers.keyTest = "armed"
    /\ timers' = [timers EXCEPT !.keyTest = "fired"]
    /\ upstream' = [kind |-> "error", name |-> "TimeoutError"]
    /\ remoteFailed' = TRUE
    /\ Respond(500, [valid |-> FALSE, message |-> MsgCannotReachProvider, success |-> FALSE])
    /\ UNCHANGED <<req, handler, calls, loc, callsAfterFailure>>
    /\ UNCHANGED <<avars, query, conc, client>>

---------------------------------------------------------------------------
(* POST /api/jafr/analyze, the handler registered first *)

MsgInvalidRequest == <<"invalid_request_data">>
MsgAnalysisDone == <<"analysis_succeeded">>
MsgProcessingError == <<"error_while_processing_request">>

\* jafrAnalysisRequestSchema.safeParse(req.body): name, mother and question
\* are required, non-empty once trimmed; options is optional.
SchemaRequired == {"name", "mother", "question"}
SchemaIssues(body) ==
    {f \in SchemaRequired : ~body[f].defined \/ trim(body[f].str) = <<>>}
SchemaValid(body) == SchemaIssues(body) = {}

\* lib/jafr-utils: the text value of a field, the digit reduction and the
\* magic-square size.
calculateBasicNumerology(str) == [total |-> calculateNameValue(str)]
utilsReduceToSingleDigit(n) == reduceToSingleDigit(n)
calculateWafqSize(reduced) == IF reduced < 3 THEN 3 ELSE reduced

\* The traditional results the handler computes from the validated fields.
TraditionalResultsWithoutQuestion(name, mother, question) ==
    LET nameAnalysis == calculateBasicNumerology(name)
        motherAnalysis == calculateBasicNumerology(mother)
        questionAnalysis == calculateBasicNumerology(question)
        totalValue == nameAnalysis.total + motherAnalysis.total
        reducedValue == utilsReduceToSingleDigit(totalValue)
    IN  [nameAnalysis |-> nameAnalysis, motherAnalysis |-> motherAnalysis,
         questionAnalysis |-> questionAnalysis, totalValue |-> totalValue,
         reducedValue |-> reducedValue, wafqSize |-> calculateWafqSize(reducedValue)]

TraditionalResults(name, mother, question) ==
    LET nameAnalysis == calculateBasicNumerology(name)
        motherAnalysis == calculateBasicNumerology(mother)
        questionAnalysis == calculateBasicNumerology(question)
        totalValue == nameAnalysis.total + motherAnalysis.total + questionAnalysis.total
        reducedValue == utilsReduceToSingleDigit(totalValue)
    IN  [nameAnalysis |-> nameAnalysis, motherAnalysis |-> motherAnalysis,
         questionAnalysis |-> questionAnalysis, totalValue |-> totalValue,
         reducedValue |-> reducedValue, wafqSize |-> calculateWafqSize(reducedValue)]

\* The body of the success response built from the handler's locals.
AnalyzeSuccessBody(l) ==
    [success |-> TRUE, message |-> MsgAnalysisDone,
     data |-> [traditionalResults |-> l.traditionalResults,
               aiAnalysis |-> l.aiAnalysis,
               combinedInterpretation |-> l.combinedInterpretation]]

\* From the start of the handler to its first await or its response: the key
\* must be present, the body must pass the schema, the traditional results
\* are computed, and unless deepAnalysis is false the context analysis is
\* requested from aiService.
AnalyzeStart ==
    /\ handler = "analyze" /\ pc = "start"
    /\ IF req.key.kind = "absent"
       THEN /\ Respond(400, [success |-> FALSE, message |-> MsgKeyRequired,
                             error |-> "MISSING_API_KEY"])
            /\ UNCHANGED <<calls, loc, callsAfterFailure>>
       ELSE IF ~SchemaValid(req.body)
       THEN /\ Respond(400, [success |-> FALSE, message |-> MsgInvalidRequest,
                             error |-> SchemaIssues(req.body)])
            /\ UNCHANGED <<calls, loc, callsAfterFailure>>
       ELSE LET l == [traditionalResults |->
                         TraditionalResults(req.body.name.str, req.body.mother.str,
                                            req.body.question.str),
                      aiAnalysis |-> Null,
                      combinedInterpretation |-> Null]
            IN  /\ loc' = l
                /\ IF req.body.deepAnalysis # "false"
                   THEN /\ Outbound("context")
                        /\ pc' = "awaitContext"
                        /\ UNCHANGED <<res, sent>>
                   ELSE /\ Respond(200, AnalyzeSuccessBody(l))
                        /\ UNCHANGED <<calls, callsAfterFailure>>
    /\ UNCHANGED <<req, handler, timers, upstream, remoteFailed>>
    /\ UNCHANGED <<avars, query, conc, client>>

\* aiService.analyzeJafrContext resolves: aiAnalysis is set and the combined
\* interpretation is requested.
AnalyzeContextResolves ==
    /\ handler = "analyze" /\ pc = "awaitContext"
    /\ loc' = [loc EXCEPT !.aiAnalysis = [null |-> FALSE, text |-> "context_analysis"]]
    /\ Outbound("combined")
    /\ pc' = "awaitCombined"
    /\ UNCHANGED <<req, handler, res, sent, timers, upstream, remoteFailed>>
    /\ UNCHANGED <<avars, query, conc, client>>

\* aiService.analyzeJafrContext throws: the catch logs the error and the
\* handler answers with the traditional results.
AnalyzeContextThrowsAnswers500 ==
    /\ handler = "analyze" /\ pc = "awaitContext"
    /\ \E o \in AiOutcomes \ {"resolved"} : upstream' = [kind |-> "error", name |-> o]
    /\ remoteFailed' = TRUE
    /\ Respond(500, [success |-> FALSE, message |-> MsgProcessingError, error |-> "ai_error"])
    /\ UNCHANGED <<req, handler, calls, timers, loc, callsAfterFailure>>
    /\ UNCHANGED <<avars, query, conc, client>>

AnalyzeContextThrowsRetries ==
    /\ handler = "analyze" /\ pc = "awaitContext"
    /\ \E o \in AiOutcomes \ {"resolved"} : upstream' = [kind |-> "error", name |-> o]
    /\ remoteFailed' = TRUE
    /\ calls' = [calls EXCEPT !.context = @ + 1]
    /\ callsAfterFailure' = callsAfterFailure + 1
    /\ UNCHANGED <<req, handler, pc, res, sent, timers, loc>>
    /\ UNCHANGED <<avars, query, conc, client>>

AnalyzeContextThrows ==
    /\ handler = "analyze" /\ pc = "awaitContext"
    /\ \E o \in AiOutcomes \ {"resolved"} : upstream' = [kind |-> "error", name |-> o]
    /\ remoteFailed' = TRUE
    /\ Respond(200, AnalyzeSuccessBody(loc))
    /\ UNCHANGED <<req, handler, calls, timers, loc, callsAfterFailure>>
    /\ UNCHANGED <<avars, query, conc, client>>

\* aiService.generateCombinedInterpretation resolves: the full answer is sent.
AnalyzeCombinedResolves ==
    /\ handler = "analyze" /\ pc = "awaitCombined"
    /\ LET l == [loc EXCEPT !.combinedInterpretation =
                                [null |-> FALSE, text |-> "combined_interpretation"]]
       IN  /\ loc' = l
           /\ Respond(200, AnalyzeSuccessBody(l))
    /\ UNCHANGED <<req, handler, calls, timers, upstream, remoteFailed, callsAfterFailure>>
    /\ UNCHANGED <<avars, query, conc, client>>

\* aiService.generateCombinedInterpretation throws: the catch logs the error;
\* aiAnalysis keeps the context analysis, combinedInterpretation stays null.
AnalyzeCombinedThrows ==
    /\ handler = "analyze" /\ pc = "awaitCombined"
    /\ \E o \in AiOutcomes \ {"resolved"} : upstream' = [kind |-> "error", name |-> o]
    /\ remoteFailed' = TRUE
    /\ Respond(200, AnalyzeSuccessBody(loc))
    /\ UNCHANGED <<req, handler, calls, timers, loc, callsAfterFailure>>
    /\ UNCHANGED <<avars, query, conc, client>>

---------------------------------------------------------------------------
(* POST /api/jafr/analyze, the handler registered second *)

\* The labels of the required fields in the missing-fields message
\* (al-ism, ism al-umm, al-su'al).
LabelName == "label_name"
LabelMotherName == "label_mother_name"
LabelQuestion == "label_question"

MsgFieldsRequired(missingFields) == <<"the_following_fields_are_required">> \o missingFields
MsgKeyRequiredEnter == <<"api_key_required_enter_valid_key">>
MsgKeyFormatInvalid == <<"invalid_key_format_sk-_and_longer_than_30">>
MsgKeyValidationFailed == <<"key_validation_failed">>
MsgOpenRouterTimeout == <<"openrouter_connection_timed_out">>
MsgAnalysisFailed == <<"analysis_error_try_again">>
MeaningDefault == "no_description_available"

\* if (!field?.trim()) missingFields.push(label), for the three fields in order
missingFieldsOf(body) ==
    (IF ~body.name.defined \/ trim(body.name.str) = <<>> THEN <<LabelName>> ELSE <<>>)
    \o (IF ~body.motherName.defined \/ trim(body.motherName.str) = <<>>
        THEN <<LabelMotherName>> ELSE <<>>)
    \o (IF ~body.question.defined \/ trim(body.question.str) = <<>>
        THEN <<LabelQuestion>> ELSE <<>>)

\* The nine meanings of each category, written as <<category, digit>>.
meanings == [t \in {"name", "mother", "birth"} |-> [d \in 1..9 |-> <<t, d>>]]

\* num % 9 || 9, for an integer num >= 0
moduloDigitWithoutFallback(n) == n % 9

moduloDigit(n) == IF n % 9 # 0 THEN n % 9 ELSE 9

\* The entry of the name category whatever the type.
getBasicMeaningIgnoringType(n, type) == meanings["name"][moduloDigit(n)]

\* const singleDigit = num % 9 || 9; return meanings[type]?.[singleDigit] || default
getBasicMeaning(n, type) ==
    LET singleDigit == moduloDigit(n)
    IN  IF type \in DOMAIN meanings /\ singleDigit \in DOMAIN meanings[type]
        THEN meanings[type][singleDigit]
        ELSE MeaningDefault

\* typeof of what calculateBasicNumerology returns: an object holding total.
TypeofNumerology == "object"

\* typeof v === 'number' ? v : 0, for a result v of calculateBasicNumerology
NumberOrZero(v) == IF TypeofNumerology = "number" THEN v.total ELSE 0

\* str.replace(/[^0-9]/g, ''): the decimal digits of str
RECURSIVE digitsOnly(_)
digitsOnly(str) ==
    IF str = <<>> THEN <<>>
    ELSE (IF \E d \in 1..10 : DigitChars[d] = Head(str) THEN <<Head(str)>> ELSE <<>>)
         \o digitsOnly(Tail(str))

\* 1. Basic Numerology Calculation
basicAnalysisOf(body) ==
    LET nameNumValue == NumberOrZero(calculateBasicNumerology(body.name.str))
        motherNameNumValue == NumberOrZero(calculateBasicNumerology(body.motherName.str))
        birthNumValue == NumberOrZero(calculateBasicNumerology(digitsOnly(body.birthDate.str)))
    IN  [nameNumber |-> nameNumValue,
         motherNameNumber |-> motherNameNumValue,
         birthNumber |-> birthNumValue,
         nameMeaning |-> getBasicMeaning(nameNumValue, "name"),
         motherNameMeaning |-> getBasicMeaning(motherNameNumValue, "mother"),
         birthMeaning |-> getBasicMeaning(birthNumValue, "birth")]

\* The result object once the basic analysis is done (time stamps left out).
secondResultOf(body) ==
    [success |-> TRUE, message |-> MsgAnalysisDone,
     data |-> [name |-> trim(body.name.str),
               motherName |-> trim(body.motherName.str),
               birthDate |-> trim(body.birthDate.str),
               basicAnalysis |-> basicAnalysisOf(body),
               advancedAnalysis |-> [empty |-> TRUE]]]

\* From the start of the handler to its first await: the missing-field list,
\* the key checks, then the 15 s timer is armed and the key check is fetched.
AnalyzeSecondStart ==
    /\ handler = "analyzeSecond" /\ pc = "start"
    /\ LET missingFields == missingFieldsOf(req.body)
           apiKey == req.key
       IN  IF Len(missingFields) > 0
           THEN /\ Respond(400, [success |-> FALSE, message |-> MsgFieldsRequired(missingFields)])
                /\ UNCHANGED <<calls, timers, callsAfterFailure>>
           ELSE IF apiKey.kind = "absent"
           THEN /\ Respond(400, [success |-> FALSE, message |-> MsgKeyRequiredEnter,
                                 error |-> "MISSING_API_KEY"])
                /\ UNCHANGED <<calls, timers, callsAfterFailure>>
           ELSE IF apiKey.kind # "string" \/ ~apiKey.sk \/ apiKey.len < MinKeyLength
           THEN /\ Respond(400, [success |-> FALSE, message |-> MsgKeyFormatInvalid,
                                 error |-> "INVALID_API_KEY_FORMAT"])
                /\ UNCHANGED <<calls, timers, callsAfterFailure>>
           ELSE /\ timers' = [timers EXCEPT !.keyTest = "armed"]
                /\ Outbound("authKey")
                /\ pc' = "awaitFetch"
                /\ UNCHANGED <<res, sent>>
    /\ UNCHANGED <<req, handler, upstream, loc, remoteFailed>>
    /\ UNCHANGED <<avars, query, conc, client>>

\* The key check resolves with a response: the timer is cleared.  A 429, a
\* 401 or a 403 is answered; another failure status goes on to read the
\* body; an ok status goes on to the analysis: the result object is built
\* (birthDate.trim() throws when birthDate is missing and the outer catch
\* answers 500), the basic analysis is computed, and unless
\* includeAdvancedAnalysis is false the 60 s timer is armed and the
\* completion is fetched.
AnalyzeSecondKeyTestResolves ==
    /\ handler = "analyzeSecond" /\ pc = "awaitFetch"
    /\ \E r \in UpstreamResponses :
         /\ upstream' = r
         /\ remoteFailed' = (remoteFailed \/ ~UpstreamOk(r))
         /\ IF r.status = 429
            THEN /\ Respond(429, [success |-> FALSE,
                                  message |-> MsgRateLimited(retryAfterOf(r)),
                                  error |-> "RATE_LIMIT_EXCEEDED",
                                  retryAfter |-> parseIntRadix10(retryAfterOf(r))])
                 /\ timers' = [timers EXCEPT !.keyTest = "cleared"]
                 /\ UNCHANGED <<calls, loc, callsAfterFailure>>
            ELSE IF r.status \in {401, 403}
            THEN /\ Respond(200, [success |-> FALSE, message |-> MsgKeyInvalidOrExpired,
                                  error |-> "INVALID_API_KEY"])
                 /\ timers' = [timers EXCEPT !.keyTest = "cleared"]
                 /\ UNCHANGED <<calls, loc, callsAfterFailure>>
            ELSE IF ~UpstreamOk(r)
            THEN /\ pc' = "awaitKeyTestJson"
                 /\ timers' = [timers EXCEPT !.keyTest = "cleared"]
                 /\ UNCHANGED <<res, sent, calls, loc, callsAfterFailure>>
            ELSE IF ~req.body.birthDate.defined
            THEN /\ Respond(500, [message |-> MsgAnalysisFailed])
                 /\ timers' = [timers EXCEPT !.keyTest = "cleared"]
                 /\ UNCHANGED <<calls, loc, callsAfterFailure>>
            ELSE /\ loc' = secondResultOf(req.body)
                 /\ IF req.body.includeAdvancedAnalysis # "false"
                    THEN /\ timers' = [timers EXCEPT !.keyTest = "cleared",
                                                     !.completion = "armed"]
                         /\ Outbound("completion")
                         /\ pc' = "awaitCompletion"
                         /\ UNCHANGED <<res, sent>>
                    ELSE /\ Respond(200, secondResultOf(req.body))
                         /\ timers' = [timers EXCEPT !.keyTest = "cleared"]
                         /\ UNCHANGED <<calls, callsAfterFailure>>
    /\ UNCHANGED <<req, handler>>
    /\ UNCHANGED <<avars, query, conc, client>>

\* keyTest.json().catch(() => ({})) settles after a failure status: the
\* handler throws, its catch clears the timer and answers success = false.
AnalyzeSecondKeyTestJsonSettles ==
    /\ handler = "analyzeSecond" /\ pc = "awaitKeyTestJson"
    /\ Respond(200, [success |-> FALSE,
                     message |-> IF upstream.jsonNull THEN MsgTypeError
                                 ELSE IF upstream.jsonOk THEN MsgUpstreamError
                                 ELSE MsgKeyValidationFailed,
                     error |-> "API_KEY_VALIDATION_ERROR"])
    /\ UNCHANGED <<req, handler, calls, timers, upstream, loc, remoteFailed, callsAfterFailure>>
    /\ UNCHANGED <<avars, query, conc, client>>

\* The key check rejects with a network error: the catch clears the timer
\* and answers success = false.
AnalyzeSecondKeyTestRejects ==
    /\ handler = "analyzeSecond" /\ pc = "awaitFetch"
    /\ upstream' = [kind |-> "error", name |-> "TypeError"]
    /\ remoteFailed' = TRUE
    /\ timers' = [timers EXCEPT !.keyTest = "cleared"]
    /\ Respond(200, [success |-> FALSE, message |-> MsgFetchFailed,
                     error |-> "API_KEY_VALIDATION_ERROR"])
    /\ UNCHANGED <<req, handler, calls, loc, callsAfterFailure>>
    /\ UNCHANGED <<avars, query, conc, client>>

\* The provider has not answered the key check after 15 s: the timer fires
\* and aborts the fetch; the catch answers 504.
AnalyzeSecondKeyTestTimeout ==
    /\ handler = "analyzeSecond" /\ pc = "awaitFetch" /\ timers.keyTest = "armed"
    /\ timers' = [timers EXCEPT !.keyTest = "fired"]
    /\ upstream' = [kind |-> "error", name |-> "AbortError"]
    /\ remoteFailed' = TRUE
    /\ Respond(504, [success |-> FALSE, message |-> MsgOpenRouterTimeout,
                     error |-> "CONNECTION_TIMEOUT"])
    /\ UNCHANGED <<req, handler, calls, loc, callsAfterFailure>>
    /\ UNCHANGED <<avars, query, conc, client>>

\* The completion fetch resolves with a response: the 60 s timer is cleared
\* and the body is read.
AnalyzeSecondCompletionResolves ==
    /\ handler = "analyzeSecond" /\ pc = "awaitCompletion"
    /\ \E r \in UpstreamResponses :
         /\ upstream' = r
         /\ remoteFailed' = (remoteFailed \/ ~UpstreamOk(r))
    /\ timers' = [timers EXCEPT !.completion = "cleared"]
    /\ pc' = "awaitCompletionJson"
    /\ UNCHANGED <<req, handler, res, sent, calls, loc, callsAfterFailure>>
    /\ UNCHANGED <<avars, query, conc, client>>

\* What advancedAnalysis becomes once the body of response r was read.
advancedAnalysisOf(r) ==
    IF r.jsonNull
    THEN [error |-> "advanced_analysis_error", details |-> "type_error"]
    ELSE IF UpstreamOk(r)
    THEN IF r.jsonOk
         THEN [analysis |-> "completion_text", model |-> "model", usage |-> "usage"]
         ELSE [error |-> "advanced_analysis_error", details |-> "json_parse_error"]
    ELSE [error |-> "advanced_analysis_failed",
          details |-> IF r.jsonOk THEN "upstream_error_message" ELSE "status_and_statusText"]

\* aiResponse.json() settles; advancedAnalysis is filled in and the result
\* is sent.
AnalyzeSecondCompletionJsonSettles ==
    /\ handler = "analyzeSecond" /\ pc = "awaitCompletionJson"
    /\ LET l == [loc EXCEPT !.data.advancedAnalysis = advancedAnalysisOf(upstream)]
       IN  /\ loc' = l
           /\ Respond(200, l)
    /\ remoteFailed' = (remoteFailed \/ ~upstream.jsonOk \/ upstream.jsonNull)
    /\ UNCHANGED <<req, handler, calls, timers, upstream, callsAfterFailure>>
    /\ UNCHANGED <<avars, query, conc, client>>

\* The completion fetch rejects with a network error: the catch fills in the
\* error (it does not clear the timer) and the result is sent.
AnalyzeSecondCompletionRejects ==
    /\ handler = "analyzeSecond" /\ pc = "awaitCompletion"
    /\ upstream' = [kind |-> "error", name |-> "TypeError"]
    /\ remoteFailed' = TRUE
    /\ LET l == [loc EXCEPT !.data.advancedAnalysis =
                     [error |-> "advanced_analysis_error", details |-> "fetch_failed"]]
       IN  /\ loc' = l
           /\ Respond(200, l)
    /\ UNCHANGED <<req, handler, calls, timers, callsAfterFailure>>
    /\ UNCHANGED <<avars, query, conc, client>>

\* The provider has not answered the completion after 60 s: the timer fires
\* and aborts the fetch; the catch fills in the error and the result is sent.
AnalyzeSecondCompletionTimeout ==
    /\ handler = "analyzeSecond" /\ pc = "awaitCompletion" /\ timers.completion = "armed"
    /\ timers' = [timers EXCEPT !.completion = "fired"]
    /\ upstream' = [kind |-> "error", name |-> "AbortError"]
    /\ remoteFailed' = TRUE
    /\ LET l == [loc EXCEPT !.data.advancedAnalysis =
                     [error |-> "advanced_analysis_error", details |-> "aborted"]]
       IN  /\ loc' = l
           /\ Respond(200, l)
    /\ UNCHANGED <<req, handler, calls, callsAfterFailure>>
    /\ UNCHANGED <<avars, query, conc, client>>

---------------------------------------------------------------------------
(* The server as registerRoutes sets it up. *)

Next ==
    \/ Receive
    \/ Dispatch
    \/ TestApiKeyStart
    \/ TestApiKeyFetchResolves
    \/ TestApiKeyJsonSettles
    \/ TestApiKeyFetchRejects
    \/ TestApiKeyTimeout
    \/ ValidateKeyStart
    \/ ValidateKeyFetchResolves
    \/ ValidateKeyJsonSettles
    \/ ValidateKeyFetchRejects
    \/ ValidateKeyTimeout
    \/ AnalyzeStart
    \/ AnalyzeContextResolves
    \/ AnalyzeContextThrows
    \/ AnalyzeCombinedResolves
    \/ AnalyzeCombinedThrows

Spec == Init /\ [][Next]_vars

---------------------------------------------------------------------------
(* Every registered handler, invoked directly, and the client's query layer. *)

\* A handler registered for the request's path is invoked with the request,
\* whatever its place in the order of registration.
Invoke ==
    /\ pc = "received"
    /\ \E i \in 1..Len(Routes) :
         /\ Routes[i].path = req.path
         /\ handler' = Routes[i].handler
    /\ pc' = "start"
    /\ UNCHANGED <<req, res, sent, calls, timers, upstream, loc, remoteFailed, callsAfterFailure>>
    /\ UNCHANGED <<avars, query, conc, client>>

\* defaultOptions.queries.retry of the QueryClient
queryRetry == FALSE

\* Whether a query that has failed failureCount times is fetched again.
ShouldRetryThreeTimes(failureCount) == failureCount < 3

ShouldRetry(failureCount) == queryRetry

\* The query function is called: one fetch.
QueryFetch ==
    /\ query.state = "idle"
    /\ query' = [state |-> "fetching", attempts |-> query.attempts + 1]
    /\ UNCHANGED <<avars, svars, conc, client>>

\* The fetch settles: the data is returned, or throwIfResNotOk (or fetch)
\* throws and the query fails unless it is to be retried.
QuerySettles ==
    /\ query.state = "fetching"
    /\ \E ok \in BOOLEAN :
         query' = [query EXCEPT !.state =
                      IF ok THEN "success"
                      ELSE IF ShouldRetry(query.attempts) THEN "idle" ELSE "error"]
    /\ UNCHANGED <<avars, svars, conc, client>>

\* The length below which the client's form rejects a key as too short.
ClientMinKeyLength == 30

\* validateApiKey(key) of the key form: null, or the error to show.  The key
\* is seen trimmed; NoKey is a key that is empty once trimmed.
validateApiKey(key) ==
    IF key.kind = "absent" THEN [null |-> FALSE, message |-> "please_enter_key"]
    ELSE IF ~key.sk THEN [null |-> FALSE, message |-> "key_must_start_with_sk-"]
    ELSE IF key.len < ClientMinKeyLength THEN [null |-> FALSE, message |-> "key_looks_too_short"]
    ELSE Null

\* validateApiKey, called by handleSubmit and returning.
CallValidateApiKey ==
    /\ fn = "validateApiKey" /\ apc = "call"
    /\ result' = validateApiKey(args.key)
    /\ apc' = "done"
    /\ UNCHANGED <<fn, text, num, input, args, values, completion, outcome, oracleCalls>>
    /\ UNCHANGED <<svars, query, conc, client>>

InitHandlers ==
    \/ Init
    \/ /\ ServerIdle
       /\ AnalyzerIdle
       /\ query = [state |-> "idle", attempts |-> 0] /\ conc = NoConcurrent /\ client = NoClient
    \/ /\ ServerIdle
       /\ query = NoQuery /\ conc = NoConcurrent /\ client = NoClient
       /\ fn = "validateApiKey" /\ apc = "call"
       /\ args \in [key : {NoKey} \cup StringKeys]
       /\ text = <<>> /\ num = 0 /\ input = 0 /\ result = 0
       /\ values = NoValues /\ completion = "none" /\ outcome = NoOutcome
       /\ oracleCalls = 0

NextHandlers ==
    \/ Receive
    \/ Invoke
    \/ TestApiKeyStart
    \/ TestApiKeyFetchResolves
    \/ TestApiKeyJsonSettles
    \/ TestApiKeyFetchRejects
    \/ TestApiKeyTimeout
    \/ ValidateKeyStart
    \/ ValidateKeyFetchResolves
    \/ ValidateKeyJsonSettles
    \/ ValidateKeyFetchRejects
    \/ ValidateKeyTimeout
    \/ AnalyzeStart
    \/ AnalyzeContextResolves
    \/ AnalyzeContextThrows
    \/ AnalyzeCombinedResolves
    \/ AnalyzeCombinedThrows
    \/ AnalyzeSecondStart
    \/ AnalyzeSecondKeyTestResolves
    \/ AnalyzeSecondKeyTestJsonSettles
    \/ AnalyzeSecondKeyTestRejects
    \/ AnalyzeSecondKeyTestTimeout
    \/ AnalyzeSecondCompletionResolves
    \/ AnalyzeSecondCompletionJsonSettles
    \/ AnalyzeSecondCompletionRejects
    \/ AnalyzeSecondCompletionTimeout
    \/ QueryFetch
    \/ QuerySettles
    \/ CallValidateApiKey

SpecHandlers == InitHandlers /\ [][NextHandlers]_vars

---------------------------------------------------------------------------
(* The served routes under the scheduling the runtime guarantees. *)

\* A handler's synchronous code runs once it is scheduled.
HandlerSteps ==
    \/ Dispatch
    \/ TestApiKeyStart
    \/ ValidateKeyStart
    \/ AnalyzeStart

\* An armed timer fires when its delay has passed.
TimerSteps ==
    \/ TestApiKeyTimeout
    \/ ValidateKeyTimeout

\* The read of a response body settles: the runtime's fetch bounds it.
BodySteps ==
    \/ TestApiKeyJsonSettles
    \/ ValidateKeyJsonSettles

\* A call of aiService settles: it waits for the oracle for a bounded time.
AiServiceSteps ==
    \/ AnalyzeContextResolves
    \/ AnalyzeContextThrows
    \/ AnalyzeCombinedResolves
    \/ AnalyzeCombinedThrows

\* The provider is under no obligation: its answers get no fairness.
FairSpec ==
    /\ Init
    /\ [][Next]_vars
    /\ WF_vars(HandlerSteps)
    /\ WF_vars(TimerSteps)
    /\ WF_vars(BodySteps)
    /\ WF_vars(AiServiceSteps)

\* The loop of reduceToSingleDigit alone: synchronous code runs on.
InitReduce == InitAnalyzer /\ fn = "reduceToSingleDigit"
NextReduce == ReduceLoop \/ ReduceReturn
FairSpecReduce == InitReduce /\ [][NextReduce]_vars /\ WF_vars(NextReduce)

-----------------------------------------------------------------------------
(* The pure functions on characters, on texts of letters with variants and  *)
(* on numbers, each called once with an argument of its domain.             *)

MaxLetterTextLen == 3

\* Letters that have variants in the table, one letter that has none, and
\* the characters outside the table.
LetterUnits ==
    {"alef", "alef_hamza_above", "alef_hamza_below", "alef_madda", "hamza",
     "heh", "teh_marbuta", "yeh", "alef_maksura", "meem"} \cup OtherCharacters

RECURSIVE StringsOver(_, _)
StringsOver(units, n) ==
    IF n = 0 THEN {<<>>}
    ELSE LET shorter == StringsOver(units, n - 1)
         IN  shorter \cup {Append(s, u) : s \in {t \in shorter : Len(t) = n - 1}, u \in units}

LetterTexts == StringsOver(LetterUnits, MaxLetterTextLen)

\* A character as for...of yields it: one code unit, or a surrogate pair.
Characters == {<<c>> : c \in (DOMAIN abjadMap) \cup OtherCharacters} \cup {<<"hs", "ls">>}

\* The type argument of getBasicMeaning; "other" is a string outside the
\* keys of meanings.
MeaningTypes == {"name", "mother", "birth", "other"}

InitFunctions ==
    /\ fn \in {"getAbjadValue", "calculateNameValue", "calculateAbjadValue", "getBasicMeaning"}
    /\ apc = "call"
    /\ text \in (CASE fn = "getAbjadValue" -> Characters
                  [] fn \in {"calculateNameValue", "calculateAbjadValue"} -> LetterTexts
                  [] OTHER -> {<<>>})
    /\ num \in (IF fn = "getBasicMeaning" THEN 0..MaxNum ELSE {0})
    /\ input = num
    /\ result = 0
    /\ args \in (IF fn = "getBasicMeaning" THEN [type : MeaningTypes] ELSE {NoArgs})
    /\ values = NoValues
    /\ completion = "none"
    /\ outcome = NoOutcome
    /\ oracleCalls = 0
    /\ ServerIdle
    /\ query = NoQuery /\ conc = NoConcurrent /\ client = NoClient

\* getAbjadValue(letter), called and returning.
CallGetAbjadValue ==
    /\ fn = "getAbjadValue" /\ apc = "call"
    /\ result' = getAbjadValue(text)
    /\ apc' = "done"
    /\ UNCHANGED <<fn, text, num, input, args, values, completion, outcome, oracleCalls>>
    /\ UNCHANGED <<svars, query, conc, client>>

\* getBasicMeaning(num, type), called and returning.
CallGetBasicMeaning ==
    /\ fn = "getBasicMeaning" /\ apc = "call"
    /\ result' = getBasicMeaning(num, args.type)
    /\ apc' = "done"
    /\ UNCHANGED <<fn, text, num, input, args, values, completion, outcome, oracleCalls>>
    /\ UNCHANGED <<svars, query, conc, client>>

NextFunctions ==
    \/ CallGetAbjadValue
    \/ CallCalculateNameValue
    \/ CallCalculateAbjadValue
    \/ CallGetBasicMeaning

SpecFunctions == InitFunctions /\ [][NextFunctions]_vars

-----------------------------------------------------------------------------
(* Two POST /api/jafr/analyze requests handled at once by the handler that  *)
(* serves the route.  The event loop runs one handler until its next await; *)
(* the two handlers interleave at their awaits in any order.                *)

Slots == {1, 2}

\* The requests: with or without a key, with a blank name or one of two
\* names, with the oracle enabled or disabled.
ConcurrentRequests ==
    {[path |-> PathAnalyze, key |-> k, body |-> b] :
        k \in {NoKey, [kind |-> "string", sk |-> TRUE, len |-> MinKeyLength]},
        b \in [name : {Blank, Str(Muhammad), Str(MotherText)},
               mother : {Str(MotherText)}, motherName : {Str(MotherText)},
               question : {Str(QuestionText)}, birthDate : {Absent},
               deepAnalysis : {"undefined", "false"},
               includeAdvancedAnalysis : {"undefined"}]}

\* What an aiService call gives one request: a text, or a throw.
OracleAnswers ==
    {[kind |-> "resolved", text |-> t] : t \in {"analysis_a", "analysis_b"}}
    \cup {[kind |-> "thrown"]}

\* Where the locals of the handler running request i live.  They are
\* declared with const and let inside the handler: one scope per call.
ScopeOfModule(i) == 1

Scope(i) == i

AtAwait(p) == p \in {"awaitContext", "awaitCombined"}

InitConcurrent ==
    /\ conc \in [req : [Slots -> ConcurrentRequests],
                  pc : {[i \in Slots |-> "start"]},
                  loc : {[i \in Slots |-> NoLocals]},
                  res : {[i \in Slots |-> NoResponse]},
                  answers : {[i \in Slots |-> <<>>]},
                  overlapped : {FALSE}]
    /\ ServerIdle
    /\ AnalyzerIdle
    /\ query = NoQuery
    /\ client = NoClient

\* One run of the handler of request i, from where it stood to its next
\* await or to its response; overlapped records that the other handler was
\* suspended at an await meanwhile.
ConcurrentRun(i, p, l, response, ans) ==
    conc' = [conc EXCEPT !.pc[i] = p,
                         !.loc[Scope(i)] = l,
                         !.res[i] = response,
                         !.answers[i] = ans,
                         !.overlapped = @ \/ AtAwait(conc.pc[3 - i])]

\* The handler of request i runs from its start to its first await or to
\* its response.
ConcurrentStart(i) ==
    /\ conc.pc[i] = "start"
    /\ LET r == conc.req[i]
           l == [traditionalResults |->
                    TraditionalResults(r.body.name.str, r.body.mother.str, r.body.question.str),
                 aiAnalysis |-> Null,
                 combinedInterpretation |-> Null]
       IN  IF r.key.kind = "absent"
           THEN ConcurrentRun(i, "responded", conc.loc[Scope(i)],
                    [status |-> 400,
                     body |-> [success |-> FALSE, message |-> MsgKeyRequired,
                               error |-> "MISSING_API_KEY"]], conc.answers[i])
           ELSE IF ~SchemaValid(r.body)
           THEN ConcurrentRun(i, "responded", conc.loc[Scope(i)],
                    [status |-> 400,
                     body |-> [success |-> FALSE, message |-> MsgInvalidRequest,
                               error |-> SchemaIssues(r.body)]], conc.answers[i])
           ELSE IF r.body.deepAnalysis # "false"
           THEN ConcurrentRun(i, "awaitContext", l, conc.res[i], conc.answers[i])
           ELSE ConcurrentRun(i, "responded", l,
                    [status |-> 200, body |-> AnalyzeSuccessBody(l)], conc.answers[i])
    /\ UNCHANGED <<avars, svars, query, client>>

\* aiService.analyzeJafrContext settles for request i: aiAnalysis is set and
\* the combined interpretation is requested, or the catch runs and the
\* response is sent from the locals.
ConcurrentContextSettles(i) ==
    /\ conc.pc[i] = "awaitContext"
    /\ \E a \in OracleAnswers :
         LET now == conc.loc[Scope(i)]
             l == [now EXCEPT !.aiAnalysis = [null |-> FALSE, text |-> a.text]]
         IN  IF a.kind = "resolved"
             THEN ConcurrentRun(i, "awaitCombined", l, conc.res[i],
                                Append(conc.answers[i], a))
             ELSE ConcurrentRun(i, "responded", now,
                                [status |-> 200, body |-> AnalyzeSuccessBody(now)],
                                Append(conc.answers[i], a))
    /\ UNCHANGED <<avars, svars, query, client>>

\* aiService.generateCombinedInterpretation settles for request i: the
\* response is sent from the locals.
ConcurrentCombinedSettles(i) ==
    /\ conc.pc[i] = "awaitCombined"
    /\ \E a \in OracleAnswers :
         LET now == conc.loc[Scope(i)]
             l == IF a.kind = "resolved"
                  THEN [now EXCEPT !.combinedInterpretation =
                                       [null |-> FALSE, text |-> a.text]]
                  ELSE now
         IN  ConcurrentRun(i, "responded", l,
                           [status |-> 200, body |-> AnalyzeSuccessBody(l)],
                           Append(conc.answers[i], a))
    /\ UNCHANGED <<avars, svars, query, client>>

NextConcurrent ==
    \E i \in Slots :
        \/ ConcurrentStart(i)
        \/ ConcurrentContextSettles(i)
        \/ ConcurrentCombinedSettles(i)

SpecConcurrent == InitConcurrent /\ [][NextConcurrent]_vars

-----------------------------------------------------------------------------
(* The browser: makeApiRequest of lib/api.ts and the key form of            *)
(* components/api-key-setup.tsx, with the server answering the key test.    *)

\* What the user typed into the key field: a key, with or without white
\* space around it.  A stored value has the same shape.
FormInputs == [key : {NoKey} \cup StringKeys, padded : BOOLEAN]

\* apiKey.trim()
trimKey(v) == [v EXCEPT !.padded = FALSE]

\* getItem("openrouter_api_key") when nothing is stored: null.
NoEntry == [key |-> NoKey, padded |-> FALSE]

\* A key stored by an earlier visit.
EarlierKey == [key |-> [kind |-> "string", sk |-> TRUE, len |-> MaxKeyLen + 1], padded |-> FALSE]

StoredEntries == {NoEntry, EarlierKey}

\* The HTTP response fetch resolved with: its status, whether its body parses
\* as JSON, and the parsed body.
NoHttp == [status |-> 0, parses |-> FALSE, body |-> Null]

\* Responses to a request for /api/jafr/analyze, from the server or from
\* anything between the browser and the server.
HttpStatuses == {200, 400, 401, 403, 429, 500}
HttpResponses == [status : HttpStatuses, parses : BOOLEAN, body : {Null}]

NoReturn == [success |-> FALSE, error |-> "", data |-> Null]

\* response.ok
ResponseOkBelow500(status) == status < 500

ResponseOk(status) == status \in 200..299

\* response.status === 401 || response.status === 403
IsUnauthorized(status) == status = 401

IsAuthFailure(status) == status \in {401, 403}

\* makeApiRequest from its entry to its first await: without a stored key a
\* request that requires one returns at once, else fetch is called.
makeApiRequestToFetch(c, endpoint, requireAuth) ==
    LET apiKey == IF c.local # NoEntry THEN c.local ELSE c.session
        called == [c EXCEPT !.endpoint = endpoint, !.requireAuth = requireAuth,
                            !.http = NoHttp, !.ret = NoReturn]
    IN  IF requireAuth /\ apiKey = NoEntry
        THEN [called EXCEPT !.mpc = "returned",
                            !.ret = [success |-> FALSE, error |-> "authentication_required",
                                     data |-> Null]]
        ELSE [called EXCEPT !.mpc = "awaitFetch", !.fetches = @ + 1]

\* The catch of makeApiRequest: whatever was thrown inside the try, the
\* promise resolves with success false.
makeApiRequestCatch(c, message) ==
    [c EXCEPT !.mpc = "returned",
              !.ret = [success |-> FALSE, error |-> message, data |-> Null]]

\* The catch of handleSubmit: both entries are removed and an error is shown.
handleSubmitCatch(c) ==
    [c EXCEPT !.local = NoEntry, !.session = NoEntry, !.error = "unexpected_error"]

\* The finally of handleSubmit.
handleSubmitFinallyKeepsTesting(c) ==
    [c EXCEPT !.isLoading = FALSE, !.hpc = "settled"]

handleSubmitFinally(c) ==
    [c EXCEPT !.isLoading = FALSE, !.isTestingConnection = FALSE, !.hpc = "settled"]

ClientFields(l, s, v, h, m, e, a) ==
    [local |-> l, session |-> s, apiKey |-> v,
     isLoading |-> FALSE, isTestingConnection |-> FALSE, error |-> "",
     showSuccess |-> FALSE, hpc |-> h, mpc |-> m, endpoint |-> e, requireAuth |-> a,
     http |-> NoHttp, ret |-> NoReturn, fetches |-> 0, notified |-> 0]

\* The key form is shown with something typed into it, or jafrApi.analyze
\* is about to be called; the server listens.
InitClient ==
    /\ req = NoRequest /\ handler = "none" /\ pc = "listening"
    /\ res = NoResponse /\ sent = 0
    /\ calls = NoCalls /\ timers = NoTimers /\ upstream = NoUpstream /\ loc = NoLocals
    /\ remoteFailed = FALSE /\ callsAfterFailure = 0
    /\ AnalyzerIdle
    /\ query = NoQuery /\ conc = NoConcurrent
    /\ \E l \in StoredEntries, s \in StoredEntries :
         \/ \E v \in FormInputs :
              client = ClientFields(l, s, v, "idle", "idle", "none", FALSE)
         \/ client = ClientFields(l, s, NoEntry, "none", "call", PathAnalyze, TRUE)

\* The form is submitted: the key is validated, the form shows that it is
\* loading, and jafrApi.testApiKey(trimmedKey) runs to its fetch.
HandleSubmit ==
    /\ client.hpc = "idle" /\ ~client.isLoading
    /\ LET trimmedKey == trimKey(client.apiKey)
           validationError == validateApiKey(trimmedKey.key)
           loading == [client EXCEPT !.isLoading = TRUE, !.error = "",
                                     !.showSuccess = FALSE,
                                     !.isTestingConnection = TRUE,
                                     !.hpc = "awaitTest"]
       IN  IF validationError # Null
           THEN /\ client' = [client EXCEPT !.error = validationError.message,
                                            !.hpc = "settled"]
                /\ UNCHANGED svars
           ELSE /\ client' = makeApiRequestToFetch(loading, PathTestApiKey, FALSE)
                /\ pc = "listening"
                /\ req' = [path |-> PathTestApiKey, key |-> NoKey,
                           body |-> [apiKey |-> trimmedKey.key]]
                /\ pc' = "received"
                /\ UNCHANGED <<handler, res, sent, calls, timers, upstream, loc,
                               remoteFailed, callsAfterFailure>>
    /\ UNCHANGED <<avars, query, conc>>

\* jafrApi.analyze(data): makeApiRequest with requireAuth runs to its fetch.
CallMakeApiRequest ==
    /\ client.mpc = "call"
    /\ client' = makeApiRequestToFetch(client, client.endpoint, client.requireAuth)
    /\ UNCHANGED <<avars, svars, query, conc>>

\* The lines of makeApiRequest after its fetch resolved with response r.
responseReceived(c, r) ==
    [c EXCEPT !.http = r,
              !.mpc = IF ResponseOk(r.status) THEN "awaitJson" ELSE "awaitErrorJson"]

\* fetch resolves with a response: the server's answer to the key test, or
\* any response to the analysis request.
FetchResolves ==
    /\ client.mpc = "awaitFetch"
    /\ \/ /\ client.endpoint = PathTestApiKey
          /\ pc = "responded"
          /\ client' = responseReceived(client, [status |-> res.status, parses |-> TRUE,
                                                 body |-> res.body])
       \/ /\ client.endpoint # PathTestApiKey
          /\ \E r \in HttpResponses : client' = responseReceived(client, r)
    /\ UNCHANGED <<avars, svars, query, conc>>

\* fetch rejects: the server could not be reached.
FetchRejects ==
    /\ client.mpc = "awaitFetch"
    /\ client' = makeApiRequestCatch(client, "cannot_reach_server")
    /\ UNCHANGED <<avars, svars, query, conc>>

\* The body of a response that is not ok has been read (or not, which is
\* only logged): a 401 or 403 removes both entries; success is false.
ErrorJsonSettles ==
    /\ client.mpc = "awaitErrorJson"
    /\ LET errorMessage == IF client.http.parses /\ "message" \in DOMAIN client.http.body
                           THEN "message_of_response" ELSE "request_failed"
       IN  client' =
             IF IsAuthFailure(client.http.status)
             THEN [client EXCEPT !.local = NoEntry, !.session = NoEntry,
                                 !.mpc = "returned",
                                 !.ret = [success |-> FALSE, error |-> "session_expired",
                                          data |-> Null]]
             ELSE [client EXCEPT !.mpc = "returned",
                                 !.ret = [success |-> FALSE, error |-> errorMessage,
                                          data |-> Null]]
    /\ UNCHANGED <<avars, svars, query, conc>>

\* The body of an ok response has been read: success with the data, or the
\* parse error is caught.
JsonSettles ==
    /\ client.mpc = "awaitJson"
    /\ client' =
         IF client.http.parses
         THEN [client EXCEPT !.mpc = "returned",
                             !.ret = [success |-> TRUE, error |-> "",
                                      data |-> client.http.body]]
         ELSE makeApiRequestCatch(client, "message_of_syntax_error")
    /\ UNCHANGED <<avars, svars, query, conc>>

\* handleSubmit resumes with the result of the key test: on success the
\* trimmed key is written to both storages (setItem throws when the storage
\* refuses the write) and the one second delay starts; else both entries
\* are removed and the error is shown.
HandleSubmitTestSettles ==
    /\ client.hpc = "awaitTest" /\ client.mpc = "returned"
    /\ LET trimmedKey == trimKey(client.apiKey) IN
         IF client.ret.success
         THEN \E written \in BOOLEAN :
                client' =
                  IF written
                  THEN [client EXCEPT !.local = trimmedKey, !.session = trimmedKey,
                                      !.showSuccess = TRUE, !.error = "",
                                      !.hpc = "awaitDelay"]
                  ELSE handleSubmitFinally(handleSubmitCatch(client))
         ELSE client' = handleSubmitFinally(
                          [client EXCEPT !.local = NoEntry, !.session = NoEntry,
                                         !.error = IF client.ret.error # ""
                                                   THEN client.ret.error
                                                   ELSE "key_not_valid"])
    /\ UNCHANGED <<avars, svars, query, conc>>

\* The delay has passed: onApiKeySet() is invoked; it returns or throws.
HandleSubmitDelayElapses ==
    /\ client.hpc = "awaitDelay"
    /\ LET notified == [client EXCEPT !.notified = @ + 1] IN
         \E thrown \in BOOLEAN :
           client' = handleSubmitFinally(IF thrown THEN handleSubmitCatch(notified)
                                         ELSE notified)
    /\ UNCHANGED <<avars, svars, query, conc>>

NextClient ==
    \/ HandleSubmit
    \/ CallMakeApiRequest
    \/ FetchResolves
    \/ FetchRejects
    \/ ErrorJsonSettles
    \/ JsonSettles
    \/ HandleSubmitTestSettles
    \/ HandleSubmitDelayElapses
    \/ Dispatch
    \/ TestApiKeyStart
    \/ TestApiKeyFetchResolves
    \/ TestApiKeyJsonSettles
    \/ TestApiKeyFetchRejects
    \/ TestApiKeyTimeout

SpecClient == InitClient /\ [][NextClient]_vars

-----------------------------------------------------------------------------
(* Claims about jafr-analyzer.js and the standalone page. *)

\* The sum of getAbjadValue(c) over the characters c of s, in order.
SumOfCharacterValues(s) ==
    LET chars == CodePoints(s)
        partial[i \in 0..Len(chars)] ==
            IF i = 0 THEN 0 ELSE partial[i - 1] + getAbjadValue(chars[i])
    IN  partial[Len(chars)]

\* C1: for every string, calculateNameValue and calculateAbjadValue return the
\* sum of getAbjadValue over its characters in order: 0 for the empty string
\* and 92 for "meem hah meem dal".
C1_TextValueIsSumOfCharacterValues ==
    (fn \in {"calculateNameValue", "calculateAbjadValue"} /\ apc = "done") =>
        /\ result = SumOfCharacterValues(text)
        /\ (text = <<>> => result = 0)
        /\ (text = Muhammad => result = 92)

C1_Witness ==
    /\ fn = "calculateNameValue" /\ apc = "done"
    /\ text = Muhammad /\ result = 92

\* C2: for every non-negative integer, reduceToSingleDigit terminates and
\* returns a value in 0..9; it returns 0 for 0, 9 for 9 and 2 for 38.
C2_ReduceTerminatesInRange ==
    /\ [](fn = "reduceToSingleDigit" => <>(apc = "done"))
    /\ []((fn = "reduceToSingleDigit" /\ apc = "done") =>
            /\ result \in 0..9
            /\ (input = 0 => result = 0)
            /\ (input = 9 => result = 9)
            /\ (input = 38 => result = 2))

C2_Witness ==
    /\ fn = "reduceToSingleDigit" /\ apc = "done"
    /\ input = 38 /\ result = 2

\* C7 (as claimed): a failure of the remote call never produces a non-success
\* outcome of the orchestrator: analyzeJafr does not end by throwing.
C7_RemoteFailureNeverNonSuccess ==
    (fn = "analyzeJafr" /\ apc = "done" /\ completion \in RemoteFailures) =>
        outcome.kind = "returned"

-----------------------------------------------------------------------------
(* Claims about POST /api/jafr/analyze and POST /api/test-api-key as served. *)

\* The traditional results of a response are the numerology of the request's
\* name, mother and question, each the sum of its characters' values.
NumerologyOfRequest(tr) ==
    /\ tr.nameAnalysis.total = SumOfCharacterValues(req.body.name.str)
    /\ tr.motherAnalysis.total = SumOfCharacterValues(req.body.mother.str)
    /\ tr.questionAnalysis.total = SumOfCharacterValues(req.body.question.str)
    /\ tr.totalValue =
         tr.nameAnalysis.total + tr.motherAnalysis.total + tr.questionAnalysis.total
    /\ tr.reducedValue = reduceToSingleDigit(tr.totalValue)
    /\ tr.wafqSize = calculateWafqSize(tr.reducedValue)

AiServiceThrew == upstream.kind = "error"

\* C3: when the request passed validation and aiService throws (failure or
\* timeout of the remote call), the handler answers 200 with success = true
\* and the locally computed traditional results, once, and nothing escapes.
C3_OracleFailureStillSucceeds ==
    (handler = "analyze" /\ AiServiceThrew) =>
        /\ pc = "responded"
        /\ sent = 1
        /\ res.status = 200
        /\ res.body.success = TRUE
        /\ NumerologyOfRequest(res.body.data.traditionalResults)

C3_Witness ==
    /\ handler = "analyze" /\ pc = "responded"
    /\ upstream = [kind |-> "error", name |-> "timeout"]
    /\ res.status = 200
    /\ res.body.data.traditionalResults.totalValue > 0

Contains(message, token) == \E i \in 1..Len(message) : message[i] = token

IsBlankOrMissing(field) == ~field.defined \/ trim(field.str) = <<>>

\* A key that passes every format check: a string starting with 'sk-' of at
\* least MinKeyLength characters.
WellFormedKey(key) == key.kind = "string" /\ key.sk /\ key.len >= MinKeyLength

\* C4 (as claimed): an analyze request, sent with a well-formed key, whose
\* name, motherName or question is missing or blank is rejected with a message
\* naming the missing fields, and no outbound call is made for it.
C4_MissingFieldsNamedInMessage ==
    (req.path = PathAnalyze /\ pc = "responded" /\ WellFormedKey(req.key)
       /\ (IsBlankOrMissing(req.body.name) \/ IsBlankOrMissing(req.body.motherName)
             \/ IsBlankOrMissing(req.body.question))) =>
        /\ res.body.success = FALSE
        /\ (IsBlankOrMissing(req.body.name) => Contains(res.body.message, LabelName))
        /\ (IsBlankOrMissing(req.body.motherName) => Contains(res.body.message, LabelMotherName))
        /\ (IsBlankOrMissing(req.body.question) => Contains(res.body.message, LabelQuestion))
        /\ calls = NoCalls

\* The credential of a request: the apiKey of the body on /api/test-api-key,
\* the x-api-key header on /api/jafr/analyze.
Credential == IF req.path = PathTestApiKey THEN req.body.apiKey ELSE req.key

\* C5 (as claimed): on /api/jafr/analyze and /api/test-api-key a credential
\* that does not start with 'sk-' is rejected with a 400 and no outbound call
\* is made for the request.
C5_BadPrefixRejectedWithoutCall ==
    (req.path \in {PathAnalyze, PathTestApiKey}
       /\ Credential.kind = "string" /\ ~Credential.sk) =>
        /\ calls = NoCalls
        /\ (pc = "responded" => res.status = 400)

\* C6: when options.deepAnalysis is false the handler makes no oracle call
\* and answers success = true with traditional results whose totalValue is
\* the sum of the three totals, reducedValue its reduction and wafqSize the
\* size of the reduced value.
C6_NumerologyWithoutOracle ==
    (handler = "analyze" /\ req.key.kind # "absent" /\ SchemaValid(req.body)
       /\ req.body.deepAnalysis = "false" /\ pc # "start") =>
        /\ pc = "responded"
        /\ calls = NoCalls
        /\ res.status = 200
        /\ res.body.success = TRUE
        /\ NumerologyOfRequest(res.body.data.traditionalResults)

C6_Witness ==
    /\ handler = "analyze" /\ pc = "responded"
    /\ req.body.deepAnalysis = "false"
    /\ res.status = 200
    /\ res.body.data.traditionalResults.questionAnalysis.total > 0
    /\ calls = NoCalls

\* The fixed "unavailable" strings that stand for a missing AI analysis.
PlaceholderAnalysis == [null |-> FALSE, text |-> "analysis_unavailable"]

\* C8 (as claimed): when the oracle is disabled or its call fails, the
\* aiAnalysis of the success response is the fixed set of placeholder strings.
C8_PlaceholderWhenOracleUnavailable ==
    (handler = "analyze" /\ pc = "responded" /\ res.body.success = TRUE
       /\ (req.body.deepAnalysis = "false" \/ AiServiceThrew)) =>
        res.body.data.aiAnalysis = PlaceholderAnalysis

-----------------------------------------------------------------------------
(* Claims about responses and outbound calls of the handlers. *)

\* C9: every request a served handler receives gets exactly one response,
\* whatever the provider does: never two, and a timer that fires leads to
\* the response.
C9_EveryRequestAnsweredOnce ==
    /\ [](sent <= 1)
    /\ []((timers.keyTest = "fired") => (pc = "responded" /\ sent = 1))
    /\ (pc = "received") ~> (pc = "responded" /\ sent = 1)

C9_Witness ==
    /\ handler = "testApiKey" /\ pc = "responded" /\ sent = 1
    /\ timers.keyTest = "fired"
    /\ upstream = [kind |-> "error", name |-> "AbortError"]

\* C10: for one request each remote operation is attempted at most once and
\* no outbound call follows a failed one; a query of the client is fetched
\* at most once.
C10_SingleAttempt ==
    /\ \A op \in DOMAIN calls : calls[op] <= 1
    /\ callsAfterFailure = 0
    /\ query.attempts <= 1

C10_Witness ==
    /\ handler = "analyze" /\ pc = "responded"
    /\ calls.context = 1 /\ calls.combined = 0
    /\ remoteFailed

-----------------------------------------------------------------------------
(* Claims about the Abjad table and the character values. *)

TextFunctionReturned == fn \in {"calculateNameValue", "calculateAbjadValue"} /\ apc = "done"

\* C11: getAbjadValue returns the table's value for a character that is a key
\* of the table and 0, with nothing thrown, for every other character; a
\* text with no character of the table has value 0.
C11_UnknownCharactersAreZero ==
    /\ (fn = "getAbjadValue" /\ apc = "done") =>
          /\ outcome.kind # "thrown"
          /\ result = IF Len(text) = 1 /\ text[1] \in DOMAIN abjadMap
                      THEN abjadMap[text[1]] ELSE 0
    /\ (TextFunctionReturned /\ \A i \in 1..Len(text) : text[i] \notin DOMAIN abjadMap) =>
          result = 0

C11_Witness ==
    /\ fn = "getAbjadValue" /\ apc = "done"
    /\ text = <<"fatha">> /\ result = 0

\* The 28 base letters of the Arabic alphabet and the 28 values of the
\* abjad kabir: the units, the tens, the hundreds and 1000.
BaseLetters ==
    {"alef", "beh", "jeem", "dal", "heh", "waw", "zain", "hah", "tah",
     "yeh", "kaf", "lam", "meem", "noon", "seen", "ain", "feh", "sad",
     "qaf", "reh", "sheen", "teh", "theh", "khah", "thal", "dad", "zah", "ghain"}

ClassicalValues ==
    (1..9) \cup {10 * k : k \in 1..9} \cup {100 * k : k \in 1..9} \cup {1000}

\* The base letters are 28 keys of the table, their values are the
\* classical values and no two of them share a value.
BaseLettersHaveClassicalValues ==
    /\ Cardinality(BaseLetters) = 28
    /\ BaseLetters \subseteq DOMAIN abjadMap
    /\ {abjadMap[c] : c \in BaseLetters} = ClassicalValues
    /\ \A c, d \in BaseLetters : abjadMap[c] = abjadMap[d] => c = d

\* C12: the table gives the 28 base letters exactly the 28 classical values,
\* each value to one base letter only, and the table of jafr-analyzer.js
\* equals the table of the standalone page; getAbjadValue of a base letter
\* returns its classical value.
C12_TableIsClassicalBijection ==
    /\ BaseLettersHaveClassicalValues
    /\ abjadMap = pageAbjadMap
    /\ (fn = "getAbjadValue" /\ apc = "done" /\ Len(text) = 1 /\ text[1] \in BaseLetters) =>
          /\ result \in ClassicalValues
          /\ result = pageAbjadMap[text[1]]

C12_Witness ==
    /\ fn = "getAbjadValue" /\ apc = "done"
    /\ text = <<"ghain">> /\ result = 1000

\* The variants of a letter: the letters the table is to treat as the same.
VariantClasses ==
    {{"alef", "alef_hamza_above", "alef_hamza_below", "alef_madda", "hamza"},
     {"heh", "teh_marbuta"},
     {"yeh", "alef_maksura"}}

VariantsOf(c) == UNION {class \in VariantClasses : c \in class}

\* The text function that returned, applied to another text.
ReturnedFunctionOf(s) ==
    IF fn = "calculateNameValue" THEN calculateNameValue(s) ELSE calculateAbjadValue(s)

\* The values of the variants as getAbjadValue returns them.
VariantValues ==
    /\ \A c \in {"alef", "alef_hamza_above", "alef_hamza_below", "alef_madda", "hamza"} :
          getAbjadValue(<<c>>) = 1
    /\ getAbjadValue(<<"teh_marbuta">>) = getAbjadValue(<<"heh">>)
    /\ getAbjadValue(<<"heh">>) = 5
    /\ getAbjadValue(<<"alef_maksura">>) = getAbjadValue(<<"yeh">>)
    /\ getAbjadValue(<<"yeh">>) = 10

\* C13: alef, its three hamza/madda forms and the lone hamza have value 1,
\* teh marbuta has the value of heh (5), alef maksura the value of yeh (10);
\* replacing a letter of a text by one of its variants leaves the value of
\* the text unchanged.
C13_VariantsHaveEqualValues ==
    /\ VariantValues
    /\ TextFunctionReturned =>
          \A i \in 1..Len(text) : \A v \in VariantsOf(text[i]) :
              ReturnedFunctionOf([text EXCEPT ![i] = v]) = result

C13_Witness ==
    /\ fn = "calculateNameValue" /\ apc = "done"
    /\ text = <<"alef_hamza_above", "teh_marbuta", "alef_maksura">>
    /\ result = 16

-----------------------------------------------------------------------------
(* Claims about the digit reductions. *)

ReduceReturned == fn = "reduceToSingleDigit" /\ apc = "done"

\* C14: reduceToSingleDigit is idempotent: for the n it was called with, the
\* value it returned is reduceToSingleDigit(n), and reducing that value again
\* gives the same value.
C14_ReduceIsIdempotent ==
    ReduceReturned =>
        /\ result = reduceToSingleDigit(input)
        /\ reduceToSingleDigit(reduceToSingleDigit(input)) = reduceToSingleDigit(input)

C14_Witness ==
    /\ ReduceReturned
    /\ input = 199 /\ result = 1
    /\ reduceToSingleDigit(199) = 1

\* C15 (as claimed): the iterative digit sum and num % 9 || 9 agree on every
\* n >= 0 that is not a multiple of 9 and differ at 0 and at the positive
\* multiples of 9.
C15_PoliciesDifferAtMultiplesOfNine ==
    ReduceReturned =>
        /\ (input % 9 # 0 => result = moduloDigit(input))
        /\ (input % 9 = 0 => result # moduloDigit(input))

\* C15 (amended): the two policies agree on every n >= 1, the positive
\* multiples of 9 included, where both give 9; they differ only at 0, where
\* reduceToSingleDigit gives 0 and num % 9 || 9 gives 9.
C15_PoliciesDifferOnlyAtZero ==
    ReduceReturned =>
        /\ (input >= 1 => result = moduloDigit(input))
        /\ (input = 0 => result = 0 /\ moduloDigit(input) = 9)

C15_Witness ==
    /\ ReduceReturned
    /\ input = 18 /\ result = 9 /\ moduloDigit(18) = 9

\* C16: for every integer num >= 0 and every category among name, mother and
\* birth, getBasicMeaning returns one of the nine entries of that category,
\* the one keyed by num % 9, or by 9 when the remainder is 0; the default
\* label is returned only for a type outside the table.
C16_MeaningIsCategoryEntry ==
    (fn = "getBasicMeaning" /\ apc = "done") =>
        IF args.type \in {"name", "mother", "birth"}
        THEN /\ result \in {meanings[args.type][d] : d \in 1..9}
             /\ result = meanings[args.type][IF num % 9 = 0 THEN 9 ELSE num % 9]
        ELSE result = MeaningDefault

C16_Witness ==
    /\ fn = "getBasicMeaning" /\ apc = "done"
    /\ num = 18 /\ args.type = "birth"
    /\ result = meanings["birth"][9]

-----------------------------------------------------------------------------
(* Claims about the key format check, the retry-after hint and birthDate. *)

\* A handler with a format check has run it for a request that it did not
\* reject for another reason.
FormatCheckRan ==
    /\ handler \in {"testApiKey", "analyzeSecond"}
    /\ pc \notin {"received", "start"}
    /\ Credential.kind # "absent"
    /\ handler = "analyzeSecond" => missingFieldsOf(req.body) = <<>>

\* What the rejection message asks of a key: 'sk-' first, more than 30
\* characters.
LongerThanThirty(key) == key.kind = "string" /\ key.sk /\ key.len > 30

\* C17 (as claimed): a key passes the format check of the server routes and
\* of the client's validateApiKey exactly when it starts with 'sk-' and is
\* longer than 30 characters; a key of 30 characters or fewer is rejected.
C17_KeyPassesIffLongerThanThirty ==
    /\ FormatCheckRan => (calls.authKey >= 1 <=> LongerThanThirty(Credential))
    /\ (fn = "validateApiKey" /\ apc = "done") =>
          (result = Null <=> LongerThanThirty(args.key))

\* C18 (as claimed): a 429 response of a handler carries the provider's
\* Retry-After value unchanged: retryAfter is the value of the header, and
\* no retryAfter is reported when the provider sent none.
C18_RetryAfterSurfacedUnchanged ==
    (pc = "responded" /\ res.status = 429 /\ upstream.kind = "response") =>
        IF upstream.retryAfter = <<>>
        THEN "retryAfter" \notin DOMAIN res.body
        ELSE /\ "retryAfter" \in DOMAIN res.body
             /\ res.body.retryAfter # Null
             /\ numToString(res.body.retryAfter.n) = upstream.retryAfter

\* The key of an analyze request was accepted: the handler has no key test,
\* or the provider answered its key test with a success status.
KeyAccepted ==
    handler = "analyzeSecond" =>
        \/ calls.completion >= 1
        \/ upstream.kind = "response" /\ UpstreamOk(upstream)

\* C19 (as claimed): an analyze request with non-blank name, mother name and
\* question and a well-formed, accepted key that omits birthDate is answered
\* with a success response carrying its results.
C19_BirthDateIsOptional ==
    (req.path = PathAnalyze /\ pc = "responded"
       /\ ~req.body.birthDate.defined
       /\ ~IsBlankOrMissing(req.body.name) /\ ~IsBlankOrMissing(req.body.motherName)
       /\ ~IsBlankOrMissing(req.body.mother) /\ ~IsBlankOrMissing(req.body.question)
       /\ WellFormedKey(req.key) /\ KeyAccepted) =>
        /\ res.status = 200
        /\ res.body.success = TRUE
        /\ "data" \in DOMAIN res.body

-----------------------------------------------------------------------------
(* Claims about requests handled at once. *)

\* The response to request r when its handler runs alone and aiService
\* gives it the answers ans, in order.
SoloResponse(r, ans) ==
    IF r.key.kind = "absent"
    THEN [status |-> 400,
          body |-> [success |-> FALSE, message |-> MsgKeyRequired, error |-> "MISSING_API_KEY"]]
    ELSE IF ~SchemaValid(r.body)
    THEN [status |-> 400,
          body |-> [success |-> FALSE, message |-> MsgInvalidRequest,
                    error |-> SchemaIssues(r.body)]]
    ELSE LET got(k) == IF Len(ans) >= k /\ ans[k].kind = "resolved"
                       THEN [null |-> FALSE, text |-> ans[k].text] ELSE Null
             enabled == r.body.deepAnalysis # "false"
             first == IF enabled THEN got(1) ELSE Null
             second == IF enabled /\ first # Null THEN got(2) ELSE Null
         IN  [status |-> 200,
              body |-> [success |-> TRUE, message |-> MsgAnalysisDone,
                        data |-> [traditionalResults |->
                                      TraditionalResults(r.body.name.str, r.body.mother.str,
                                                         r.body.question.str),
                                  aiAnalysis |-> first,
                                  combinedInterpretation |-> second]]]

\* C20: whatever the interleaving of two analyze requests at their awaits,
\* the response each gets is the response it gets when run alone with the
\* same aiService answers.
C20_ConcurrentRequestsAreIsolated ==
    \A i \in Slots :
        conc.pc[i] = "responded" => conc.res[i] = SoloResponse(conc.req[i], conc.answers[i])

C20_Witness ==
    /\ conc.overlapped
    /\ conc.pc[1] = "responded" /\ conc.pc[2] = "responded"
    /\ conc.res[1].status = 200 /\ conc.res[2].status = 200
    /\ Len(conc.answers[1]) = 2 /\ Len(conc.answers[2]) = 2
    /\ conc.res[1] # conc.res[2]
    /\ conc.res[1].body.data.traditionalResults # conc.res[2].body.data.traditionalResults

-----------------------------------------------------------------------------
(* Claims about the browser. *)

\* handleSubmit has finished after the server answered the key test, and
\* nothing was thrown inside it.
SubmitFinishedWithAnswer ==
    /\ client # NoClient
    /\ client.hpc = "settled"
    /\ client.endpoint = PathTestApiKey
    /\ client.http # NoHttp
    /\ client.error # "unexpected_error"

KeyStored ==
    /\ client.local = trimKey(client.apiKey)
    /\ client.session = trimKey(client.apiKey)

\* C21: when handleSubmit has finished after the server answered the key
\* test, the key is stored (and onApiKeySet was called) if and only if the
\* server's answer had valid = true.
C21_KeyStoredIffServerSaidValid ==
    SubmitFinishedWithAnswer =>
        ((KeyStored /\ client.notified = 1) <=> client.http.body.valid)

-----------------------------------------------------------------------------
(* Claims about the timers of the server's outbound calls. *)

TimerSettled(t) == t \in {"unset", "cleared", "fired"}

\* C22: when a handler that arms timers with setTimeout has sent its
\* response, every timer it armed before an outbound fetch (15 s key test,
\* 60 s completion) has been cleared or has fired.
C22_NoTimerArmedAfterResponse ==
    (pc = "responded" /\ handler \in {"testApiKey", "analyzeSecond"})
        => TimerSettled(timers.keyTest) /\ TimerSettled(timers.completion)

-----------------------------------------------------------------------------
(* Claims about the two handlers registered for POST /api/jafr/analyze. *)

\* C23: a request for /api/jafr/analyze is only ever run by the handler
\* registered first, never by the second; once the first handler has the
\* request it keeps it, and it sends the response, once.
C23_SecondAnalyzeHandlerNeverRuns ==
    /\ [](req.path = PathAnalyze => handler \in {"none", "analyze"})
    /\ [][handler = "analyze" => handler' = "analyze"]_vars
    /\ (req.path = PathAnalyze /\ pc = "received")
          ~> (handler = "analyze" /\ pc = "responded" /\ sent = 1)

C23_Witness ==
    /\ req.path = PathAnalyze
    /\ handler = "analyze"
    /\ pc = "responded"
    /\ res.status = 200

-----------------------------------------------------------------------------
(* Claims about the two implementations of the value of a text. *)

\* A character outside the Basic Multilingual Plane: a surrogate pair.
HasAstralCharacter(s) == \E i \in 1..(Len(s) - 1) : s[i] = "hs" /\ s[i + 1] = "ls"

\* C24: on every string, with or without characters outside the Basic
\* Multilingual Plane, calculateNameValue (by code point) and
\* calculateAbjadValue (by UTF-16 unit) return the same total.
C24_TextValueImplementationsAgree ==
    TextFunctionReturned =>
        /\ result = (IF fn = "calculateNameValue" THEN calculateNameValue(text)
                     ELSE calculateAbjadValue(text))
        /\ calculateNameValue(text) = calculateAbjadValue(text)

C24_Witness ==
    /\ fn = "calculateAbjadValue" /\ apc = "done"
    /\ HasAstralCharacter(text)
    /\ Len(CodePoints(text)) < Len(SplitUnits(text))
    /\ result > 0

\* makeApiRequest has settled: its promise has resolved with client.ret.
MakeApiRequestSettled == client # NoClient /\ client.mpc \in {"returned", "rejected"}

\* C25: the promise of makeApiRequest never rejects; it resolves with a
\* boolean success, which is true only when the response was ok and its
\* body parsed; called with requireAuth while neither storage holds a key,
\* it resolves with success false and fetch is not called.
C25_MakeApiRequestNeverRejects ==
    /\ [](MakeApiRequestSettled =>
            /\ client.mpc = "returned"
            /\ client.ret.success \in BOOLEAN
            /\ client.ret.success =>
                  (client.http.status \in 200..299 /\ client.http.parses))
    /\ [][(client.mpc = "call" /\ client.requireAuth
             /\ client.local = NoEntry /\ client.session = NoEntry)
          => (client'.mpc = "returned" /\ ~client'.ret.success
                /\ client'.fetches = client.fetches)]_vars

C25_Witness ==
    /\ MakeApiRequestSettled
    /\ client.requireAuth
    /\ client.http.status = 200 /\ ~client.http.parses
    /\ ~client.ret.success

\* C26: a step of makeApiRequest removes the stored key from both storages
\* when it handles a response with status 401 or 403, and leaves both
\* entries as they were in every other case.
C26_KeyRemovedExactlyOnAuthFailure ==
    [][(client.mpc # client'.mpc) =>
         IF client.mpc = "awaitErrorJson" /\ client.http.status \in {401, 403}
         THEN client'.local = NoEntry /\ client'.session = NoEntry
         ELSE client'.local = client.local /\ client'.session = client.session]_vars

C26_Witness ==
    /\ client.mpc = "returned"
    /\ client.requireAuth /\ client.fetches = 1
    /\ client.http.status = 403
    /\ client.local = NoEntry /\ client.session = NoEntry

\* handleSubmit has settled after jafrApi.testApiKey resolved with success
\* false.
SubmitSettledAfterFailedTest ==
    /\ client.hpc = "settled"
    /\ client.endpoint = PathTestApiKey /\ client.mpc = "returned"
    /\ ~client.ret.success

\* C27: in one submit of the key form, onApiKeySet is invoked at most once
\* and only when both storages hold the trimmed key; when the key test was
\* made and came back without success, both entries are removed and
\* onApiKeySet is not invoked; when handleSubmit has settled, isLoading and
\* isTestingConnection are false.
C27_SubmitNotifiesOnceAndResetsFlags ==
    /\ [][client'.notified # client.notified =>
            /\ client.notified = 0 /\ client'.notified = 1
            /\ client.local = trimKey(client.apiKey)
            /\ client.session = trimKey(client.apiKey)]_vars
    /\ [](SubmitSettledAfterFailedTest =>
            (client.local = NoEntry /\ client.session = NoEntry /\ client.notified = 0))
    /\ [](client.hpc = "settled" => (~client.isLoading /\ ~client.isTestingConnection))

C27_Witness ==
    /\ client.hpc = "settled"
    /\ client.notified = 1
    /\ client.apiKey.padded
    /\ KeyStored
    /\ client.showSuccess

-----------------------------------------------------------------------------
(* Claims about POST /api/test-api-key. *)

TestApiKeyAnswered == handler = "testApiKey" /\ pc = "responded"

\* The provider answered the key check, with an ok status.
ProviderAnsweredOk == upstream.kind = "response" /\ upstream.status \in 200..299

\* C28: the answer of POST /api/test-api-key has valid = true and
\* success = true if and only if the provider answered the key check with
\* an ok status; every other outcome gives valid = false and success = false.
C28_ValidIffProviderAnsweredOk ==
    TestApiKeyAnswered =>
        /\ res.body.valid = res.body.success
        /\ res.body.valid <=> ProviderAnsweredOk

====
